---- MODULE Spec2Model ----
(***************************************************************************)
(* Manhwa-Engine: the turn-based story session and its streaming client.   *)
(*                                                                         *)
(* The repository holds several iterations of the same App component.      *)
(* Each iteration is modelled by its own definitions, prefixed with the    *)
(* iteration's tag, and the variable `variant` fixes which one runs:       *)
(*   p5  src/unnamed/part_005          (undoStack / redoStack refs)        *)
(*   hs  src/src/App.tsx lines 198-600 (historyStack / redoStack state)    *)
(*   p4  src/unnamed/part_004          (no stacks, one line per event)     *)
(*   p8  src/unnamed/part_008 lines 40-333 (plain strings, raw bytes)      *)
(*   sv  src/src/App.tsx lines 642-933 (send, modes ACT / SPEAK / SYSTEM)  *)
(*   p0  src/unnamed/part_000          (GameInterface.sendAction)          *)
(*   p2  src/unnamed/part_002 lines 1-42 (GameToolbar, the mode buttons)   *)
(* The iterations of the server-side proxy are further values of          *)
(* `variant`, listed with the proxy below.                                 *)
(*                                                                         *)
(* Text is a sequence of atoms (short strings); concatenation is \o.       *)
(* A Line is [text, who]; for iterations whose lines carry no speaker the  *)
(* field `who` records which code path created the line.                   *)
(*                                                                         *)
(* One behaviour follows one Session.  The variable `scope` fixes how the  *)
(* behaviour is explored:                                                  *)
(*   wide     every seed and every mode, one turn, at most one edit        *)
(*   deep     one seed, modes say / continue / erase, one turn and up to   *)
(*            MaxEdits edits (erase, rejected submit, undo, redo, stop)    *)
(*   overlap  up to MaxTurns turns, possibly in flight together, no edit   *)
(*   wire     one turn and no edit, the response split into reads at       *)
(*            every possible place                                         *)
(***************************************************************************)
EXTENDS Integers, Sequences, FiniteSets, TLC

VARIABLES variant, scope, view, mode, lines, undoStack, redoStack, streaming,
          controllerRef, turns, op, nEdits, proxy

vars == <<variant, scope, view, mode, lines, undoStack, redoStack, streaming,
          controllerRef, turns, op, nEdits, proxy>>

(***************************************************************************)
(* Bounds of the model                                                     *)
(***************************************************************************)
MaxTurns == 2
MaxEdits == 3

TurnIds == 1..MaxTurns

(***************************************************************************)
(* Program constants                                                       *)
(***************************************************************************)
UndoLimit == 50
\* the Lines sent as history with a request
HistoryLimit == 8
sv_HistoryLimit == 12

Variants == {"p5", "hs", "p4", "p8", "sv", "p0", "p2"}
TextModes == {"do", "say", "think", "story"}

\* contents of the input box when a handler runs
Inputs == {<<" ">>, <<"x", " ">>}

(***************************************************************************)
(* Text helpers                                                            *)
(***************************************************************************)
IsSpace(a) == a \in {" ", "N"}

RECURSIVE TrimLeft(_)
TrimLeft(s) == IF s # <<>> /\ IsSpace(Head(s)) THEN TrimLeft(Tail(s)) ELSE s

RECURSIVE TrimRight(_)
TrimRight(s) ==
  IF s # <<>> /\ IsSpace(s[Len(s)]) THEN TrimRight(SubSeq(s, 1, Len(s) - 1)) ELSE s

trim(s) == TrimRight(TrimLeft(s))

\* id is 0 except for the lines an iteration looks up by their id
Line(t, w) == [text |-> t, who |-> w, id |-> 0]

RemoveAt(s, i) == SubSeq(s, 1, i - 1) \o SubSeq(s, i + 1, Len(s))

\* index of the last line spoken by w, 0 when there is none
LastIndexOf(s, w) ==
  LET I == {i \in 1..Len(s) : s[i].who = w}
  IN IF I = {} THEN 0 ELSE CHOOSE i \in I : \A j \in I : j <= i

NoOp == [name |-> "init", turn |-> 0, m |-> ""]
Op(n, t, m) == [name |-> n, turn |-> t, m |-> m]

Scopes == {"wide", "deep", "overlap", "wire"}

EditLimit == IF scope = "deep" THEN MaxEdits ELSE IF scope = "wide" THEN 1 ELSE 0
TurnLimit == IF scope = "overlap" THEN MaxTurns ELSE 1

\* an operation of the user that starts no turn
Edit == nEdits < EditLimit /\ nEdits' = nEdits + 1

\* the modes and input box contents a handler is tried with
ScopeModes == IF scope = "wide" THEN TextModes \cup {"continue", "erase"}
              ELSE IF scope = "deep" THEN {"say", "continue", "erase"}
              ELSE IF scope = "overlap" THEN {"say"}
              ELSE {"continue"}

\* a turn: the position of one sendMessage call after its first await, the
\* bytes still to arrive (wire) and the sizes of the reads that deliver them
\* (cuts; empty when the sizes are free), the parser's state (buf, data),
\* the values its closure captured, the body of its request (req), the bytes
\* its reads have returned (sent) and the deltas it has emitted so far
NoRequest == [message |-> <<>>, history |-> <<>>]

IdleTurn == [pc |-> "idle", mode |-> "", wire |-> <<>>, cuts |-> <<>>,
             buf |-> <<>>, data |-> <<>>, deltas |-> <<>>, capLines |-> <<>>,
             capHist |-> <<>>, tailText |-> <<>>, sent |-> <<>>, out |-> "",
             req |-> NoRequest]

\* the body of a request: the message and the history Lines sent with it
Request(message, history) == [message |-> message, history |-> history]

\* array.slice(-n)
slice(s, n) == IF Len(s) <= n THEN s ELSE SubSeq(s, Len(s) - n + 1, Len(s))

\* lines.map((ln) => ln.text)
texts(ls) == [i \in 1..Len(ls) |-> ls[i].text]

FreeTurn == 1 + Cardinality({t \in TurnIds : turns[t].pc # "idle"})

(***************************************************************************)
(* The wire: what the narration service sends, as atoms.                   *)
(*   "D"  the field prefix `data: `      "N"  a line feed                  *)
(*   "{c" the bytes `{"content":"`       "c}" the bytes `"}`               *)
(*   "q"  a double quote                 "X"  the sentinel `[DONE]`        *)
(*   "a", "b"  plain text                                                  *)
(***************************************************************************)
Letters == {"a", "b"}

WireJson == <<"D", "{c", "a", "b", "c}", "N", "N">>
WireRaw == <<"D", "a", "N", "N", "D", "{c", "b", "c}", "N", "N">>
WireDone == <<"D", "a", "N", "N", "D", "X", "N", "N", "D", "b", "N", "N">>
WireQuoted == <<"D", "q", "a", "q", "N", "N", "D", "q", "b", "q", "N", "N">>
WireAfterDone == <<"D", "{c", "a", "c}", "N", "N", "D", "X", "N", "N",
                   "D", "{c", "b", "c}", "N", "N">>

\* a response: its bytes and the sizes of the reads that deliver them; the
\* iterations without an event parser (p8, sv) write the bytes as they come
\* and are not tried with the longest response
Response(w, c) == [wire |-> w, cuts |-> c]

\* a reply of six events, which takes a Transcript past HistoryLimit Lines
\* where every delta becomes a Line
WireEvent == <<"D", "{c", "a", "c}", "N", "N">>
WireLong == WireEvent \o WireEvent \o WireEvent \o WireEvent \o WireEvent \o WireEvent

Responses ==
  IF scope = "wire"
  THEN {Response(WireJson, <<>>), Response(WireRaw, <<>>), Response(WireDone, <<>>),
        Response(WireQuoted, <<>>)}
       \cup (IF variant \in {"p8", "sv"} THEN {} ELSE {Response(WireAfterDone, <<>>)})
  ELSE IF scope = "overlap"
  THEN {Response(WireJson, <<3, 4>>), Response(WireLong, <<12, 12, 12>>)}
  ELSE {Response(WireJson, <<3, 4>>), Response(WireDone, <<4, 8>>)}

AllLetters(s) == \A i \in 1..Len(s) : s[i] \in Letters

Middle(s) == SubSeq(s, 2, Len(s) - 1)

\* JSON.parse on a payload: an object with a string `content`, a string
\* literal, or a SyntaxError (ok = FALSE)
JSONparse(p) ==
  IF Len(p) >= 2 /\ p[1] = "{c" /\ p[Len(p)] = "c}" /\ AllLetters(Middle(p))
  THEN [ok |-> TRUE, kind |-> "obj", content |-> Middle(p)]
  ELSE IF Len(p) >= 2 /\ p[1] = "q" /\ p[Len(p)] = "q" /\ AllLetters(Middle(p))
  THEN [ok |-> TRUE, kind |-> "str", content |-> Middle(p)]
  ELSE [ok |-> FALSE, kind |-> "", content |-> <<>>]

(***************************************************************************)
(* createParser(...).feed of eventsource-parser, as the callers use it:    *)
(* the parser keeps the unterminated line (buf) and the data of the event  *)
(* under construction (data) between calls; a blank line dispatches the    *)
(* event.  ps = [buf, data, events], events being the payloads dispatched  *)
(* so far by this call.                                                    *)
(***************************************************************************)
parseEventStreamLine(ps) ==
  IF ps.buf = <<>>
  THEN IF ps.data # <<>>
       THEN [buf |-> <<>>, data |-> <<>>,
             events |-> Append(ps.events, SubSeq(ps.data, 1, Len(ps.data) - 1))]
       ELSE [ps EXCEPT !.buf = <<>>]
  ELSE IF Head(ps.buf) = "D"
       THEN [ps EXCEPT !.buf = <<>>, !.data = ps.data \o Tail(ps.buf) \o <<"N">>]
       ELSE [ps EXCEPT !.buf = <<>>]

RECURSIVE feedFrom(_, _)
feedFrom(ps, chunk) ==
  IF chunk = <<>> THEN ps
  ELSE IF Head(chunk) = "N"
       THEN feedFrom(parseEventStreamLine(ps), Tail(chunk))
       ELSE feedFrom([ps EXCEPT !.buf = Append(ps.buf, Head(chunk))], Tail(chunk))

feed(buf, data, chunk) == feedFrom([buf |-> buf, data |-> data, events |-> <<>>], chunk)

\* the Transcript with its two stacks, as one value
Hist == [lines |-> lines, undoStack |-> undoStack, redoStack |-> redoStack]

SetHist(h) ==
  /\ lines' = h.lines
  /\ undoStack' = h.undoStack
  /\ redoStack' = h.redoStack

(***************************************************************************)
(* Steps common to the iterations                                          *)
(***************************************************************************)
appendLine(ls, text, who) == Append(ls, Line(text, who))

\* a sendMessage call reaches its fetch: it becomes turn FreeTurn
StartTurn(m, capL, capH, req) ==
  /\ FreeTurn <= TurnLimit
  /\ turns' = [turns EXCEPT ![FreeTurn] =
                 [IdleTurn EXCEPT !.pc = "fetch", !.mode = m, !.req = req,
                                  !.capLines = capL, !.capHist = capH]]

\* fetch resolved with a response to read
FetchOk(t) ==
  /\ turns[t].pc = "fetch"
  /\ \E r \in Responses :
       turns' = [turns EXCEPT ![t].pc = "read", ![t].wire = r.wire, ![t].cuts = r.cuts]
  /\ op' = Op("fetchOk", t, "")
  /\ UNCHANGED <<variant, scope, proxy, mode, view, lines, undoStack, redoStack, streaming,
                 controllerRef, nEdits>>

\* the value of the next read: the first k atoms of what is still to arrive
CanRead(t, k) ==
  /\ turns[t].pc = "read"
  /\ k \in 1..Len(turns[t].wire)
  /\ turns[t].cuts # <<>> => k = Head(turns[t].cuts)

AfterRead(t, k, ps, ds) ==
  [turns EXCEPT ![t].wire = SubSeq(turns[t].wire, k + 1, Len(turns[t].wire)),
                ![t].cuts = IF turns[t].cuts = <<>> THEN <<>> ELSE Tail(turns[t].cuts),
                ![t].buf = ps.buf, ![t].data = ps.data,
                ![t].sent = turns[t].sent \o SubSeq(turns[t].wire, 1, k),
                ![t].deltas = turns[t].deltas \o ds]

(***************************************************************************)
(* part_005                                                                *)
(***************************************************************************)
p5_Seeds ==
  IF scope = "wide"
  THEN { <<<<>>, <<>>, <<>>>>, <<<<"T">>, <<"S">>, <<"O">>>> }
  ELSE { <<<<"T">>, <<>>, <<"O">>>> }

p5_initial(plotTitle, plotSummary, openingScene) ==
  LET i == (IF plotTitle # <<>> THEN <<Line(<<"World - ">> \o plotTitle, "ai")>> ELSE <<>>)
           \o (IF plotSummary # <<>> THEN <<Line(plotSummary, "ai")>> ELSE <<>>)
           \o (IF openingScene # <<>> THEN <<Line(openingScene, "ai")>> ELSE <<>>)
  IN IF Len(i) = 0 THEN <<Line(<<"A new tale begins.">>, "ai")>> ELSE i

p5_startGameFromSetup ==
  /\ variant = "p5"
  /\ view = "HOME"
  /\ \E s \in p5_Seeds : lines' = p5_initial(s[1], s[2], s[3])
  /\ op' = Op("start", 0, "")
  /\ undoStack' = <<>>
  /\ redoStack' = <<>>
  /\ view' = "GAME"
  /\ UNCHANGED <<variant, scope, proxy, mode, streaming, controllerRef, turns, nEdits>>

\* p5_pushed without the shift: the stack grows without limit
p5_pushed_noShift(stack, snapshot) == Append(stack, snapshot)

p5_pushed(stack, snapshot) ==
  LET s == Append(stack, snapshot)
  IN IF Len(s) > UndoLimit THEN Tail(s) ELSE s

\* p5_pushUndoSnapshot without the push: Redo is cleared, History is not
\* touched
p5_pushUndoSnapshot_noPush ==
  /\ undoStack' = undoStack
  /\ redoStack' = <<>>

p5_pushUndoSnapshot ==
  /\ undoStack' = p5_pushed(undoStack, lines)
  /\ redoStack' = <<>>

p5_appendToLastAiChunk(prev, chunk) ==
  LET lastAi == LastIndexOf(prev, "ai")
  IN IF lastAi = 0
     THEN Append(prev, Line(chunk, "ai"))
     ELSE [prev EXCEPT ![lastAi].text = prev[lastAi].text \o chunk]

p5_ensureStreamingAiLine(prev) ==
  IF Len(prev) = 0 \/ prev[Len(prev)].who # "ai"
  THEN Append(prev, Line(<<>>, "ai"))
  ELSE prev

p5_erased(prev) ==
  LET ai == LastIndexOf(prev, "ai")
      c1 == IF ai = 0 THEN prev ELSE RemoveAt(prev, ai)
      us == LastIndexOf(c1, "user")
  IN IF us = 0 THEN c1 ELSE RemoveAt(c1, us)

p5_userText(m, input) ==
  IF m = "say" THEN <<"You say: ", "\"">> \o trim(input) \o <<"\"">>
  ELSE IF m = "do" THEN <<"You attempt: ">> \o trim(input)
  ELSE IF m = "think" THEN <<"You think: ">> \o trim(input)
  ELSE IF m = "story" THEN <<"You narrate: ">> \o trim(input)
  ELSE <<"Continue">>

\* the request carries no history
p5_payload(m, input) ==
  Request(IF m = "continue" THEN <<>> ELSE p5_userText(m, input), <<>>)

p5_Notice == <<"(You must type something or press Continue)">>

\* sendMessage up to its first await
p5_sendMessage(m, input) ==
  /\ variant = "p5"
  /\ view = "GAME"
  /\ IF m = "erase"
     THEN /\ Edit
          /\ p5_pushUndoSnapshot
          /\ lines' = p5_erased(lines)
          /\ op' = Op("erase", 0, m)
          /\ UNCHANGED <<streaming, controllerRef, turns>>
     ELSE IF m # "continue" /\ Len(trim(input)) = 0
     THEN /\ Edit
          /\ lines' = appendLine(lines, p5_Notice, "ai")
          /\ op' = Op("reject", 0, m)
          /\ UNCHANGED <<undoStack, redoStack, streaming, controllerRef, turns>>
     ELSE /\ StartTurn(m, <<>>, <<>>, p5_payload(m, input))
          /\ p5_pushUndoSnapshot
          /\ lines' = p5_ensureStreamingAiLine(
                        IF m # "continue"
                        THEN Append(lines, Line(p5_userText(m, input), "user"))
                        ELSE lines)
          /\ streaming' = TRUE
          /\ controllerRef' = FreeTurn
          /\ op' = Op("submit", FreeTurn, m)
          /\ UNCHANGED nEdits
  /\ UNCHANGED <<variant, scope, proxy, mode, view>>

\* the parser callback: the delta (if any) an event's payload yields
p5_deltas(data) ==
  IF data = <<"X">> THEN <<>>
  ELSE LET parsed == JSONparse(data)
       IN IF parsed.ok THEN <<parsed.content>> ELSE <<data>>

RECURSIVE p5_applyDeltas(_, _)
p5_applyDeltas(ls, ds) ==
  IF ds = <<>> THEN ls
  ELSE p5_applyDeltas(p5_appendToLastAiChunk(ls, Head(ds)), Tail(ds))

RECURSIVE p5_allDeltas(_)
p5_allDeltas(events) ==
  IF events = <<>> THEN <<>>
  ELSE p5_deltas(Head(events)) \o p5_allDeltas(Tail(events))

\* the finally block
p5_finally(t, out) ==
  /\ streaming' = FALSE
  /\ controllerRef' = 0
  /\ turns' = [turns EXCEPT ![t].pc = "done", ![t].out = out]

p5_fetchOk(t) == variant = "p5" /\ FetchOk(t)

\* !res.ok || !res.body
p5_fetchNotOk(t) ==
  /\ variant = "p5"
  /\ turns[t].pc = "fetch"
  /\ lines' = appendLine(lines, <<"(error) ", "detail">>, "ai")
  /\ p5_finally(t, "httperr")
  /\ op' = Op("fetchNotOk", t, "")
  /\ UNCHANGED <<variant, scope, proxy, mode, view, undoStack, redoStack, nEdits>>

\* fetch or reader.read rejected with something other than an AbortError
p5_catchError(t) ==
  /\ variant = "p5"
  /\ turns[t].pc \in {"fetch", "read"}
  /\ lines' = appendLine(lines, <<"(network error) ", "message">>, "ai")
  /\ p5_finally(t, "neterr")
  /\ op' = Op("catchError", t, "")
  /\ UNCHANGED <<variant, scope, proxy, mode, view, undoStack, redoStack, nEdits>>

\* p5_read with the delta written into the Line object itself: the
\* snapshot on top of the undo stack, which holds that Line, changes with it
p5_read_inPlace(t, k) ==
  /\ variant = "p5"
  /\ CanRead(t, k)
  /\ LET ps == feed(turns[t].buf, turns[t].data, SubSeq(turns[t].wire, 1, k))
         ds == p5_allDeltas(ps.events)
     IN /\ lines' = p5_applyDeltas(lines, ds)
        /\ undoStack' = IF undoStack = <<>> THEN undoStack
                        ELSE [undoStack EXCEPT ![Len(undoStack)] = p5_applyDeltas(@, ds)]
        /\ turns' = AfterRead(t, k, ps, ds)
  /\ op' = Op("read", t, "")
  /\ UNCHANGED <<variant, scope, proxy, mode, view, redoStack, streaming,
                 controllerRef, nEdits>>

\* one pass of the read loop with a value of k atoms
p5_read(t, k) ==
  /\ variant = "p5"
  /\ CanRead(t, k)
  /\ LET ps == feed(turns[t].buf, turns[t].data, SubSeq(turns[t].wire, 1, k))
         ds == p5_allDeltas(ps.events)
     IN /\ lines' = p5_applyDeltas(lines, ds)
        /\ turns' = AfterRead(t, k, ps, ds)
  /\ op' = Op("read", t, "")
  /\ UNCHANGED <<variant, scope, proxy, mode, view, undoStack, redoStack, streaming,
                 controllerRef, nEdits>>

\* the read that reports done
p5_readDone(t) ==
  /\ variant = "p5"
  /\ turns[t].pc = "read"
  /\ turns[t].wire = <<>>
  /\ p5_finally(t, "ok")
  /\ op' = Op("readDone", t, "")
  /\ UNCHANGED <<variant, scope, proxy, mode, view, lines, undoStack, redoStack, nEdits>>

\* p5_stopStreaming with the catch block taking its other branch: the
\* cancellation is reported as a network error
p5_stopStreaming_asNetworkError ==
  /\ variant = "p5"
  /\ view = "GAME"
  /\ streaming
  /\ Edit
  /\ IF controllerRef # 0 /\ turns[controllerRef].pc \in {"fetch", "read"}
     THEN /\ lines' = appendLine(lines, <<"(network error) ", "message">>, "ai")
          /\ turns' = [turns EXCEPT ![controllerRef].pc = "done",
                                    ![controllerRef].out = "neterr"]
     ELSE UNCHANGED <<lines, turns>>
  /\ controllerRef' = 0
  /\ streaming' = FALSE
  /\ op' = Op("stop", controllerRef, "")
  /\ UNCHANGED <<variant, scope, proxy, mode, view, undoStack, redoStack>>

\* the Stop button; the pending fetch or read of the aborted turn rejects
\* with an AbortError and its catch and finally blocks run
p5_stopStreaming ==
  /\ variant = "p5"
  /\ view = "GAME"
  /\ streaming
  /\ Edit
  /\ IF controllerRef # 0 /\ turns[controllerRef].pc \in {"fetch", "read"}
     THEN /\ lines' = appendLine(lines, <<"(stream aborted)">>, "ai")
          /\ turns' = [turns EXCEPT ![controllerRef].pc = "done",
                                    ![controllerRef].out = "abort"]
     ELSE UNCHANGED <<lines, turns>>
  /\ controllerRef' = 0
  /\ streaming' = FALSE
  /\ op' = Op("stop", controllerRef, "")
  /\ UNCHANGED <<variant, scope, proxy, mode, view, undoStack, redoStack>>

\* undo and redo as functions of h = [lines, undoStack, redoStack]
p5_undone(h) ==
  IF h.undoStack # <<>>
  THEN [lines |-> h.undoStack[Len(h.undoStack)],
        undoStack |-> SubSeq(h.undoStack, 1, Len(h.undoStack) - 1),
        redoStack |-> Append(h.redoStack, h.lines)]
  ELSE h

p5_redone(h) ==
  IF h.redoStack # <<>>
  THEN [lines |-> h.redoStack[Len(h.redoStack)],
        undoStack |-> Append(h.undoStack, h.lines),
        redoStack |-> SubSeq(h.redoStack, 1, Len(h.redoStack) - 1)]
  ELSE h

p5_undo ==
  /\ variant = "p5"
  /\ view = "GAME"
  /\ Edit
  /\ SetHist(p5_undone(Hist))
  /\ op' = Op("undo", 0, "")
  /\ UNCHANGED <<variant, scope, proxy, mode, view, streaming, controllerRef, turns>>

p5_redo ==
  /\ variant = "p5"
  /\ view = "GAME"
  /\ Edit
  /\ SetHist(p5_redone(Hist))
  /\ op' = Op("redo", 0, IF redoStack # <<>> THEN "popped" ELSE "")
  /\ UNCHANGED <<variant, scope, proxy, mode, view, streaming, controllerRef, turns>>

\* the mode buttons Do / Say / Think / Story
p5_setMode(m) ==
  /\ variant = "p5"
  /\ view = "GAME"
  /\ m \in TextModes
  /\ mode # m
  /\ mode' = m
  /\ op' = Op("setMode", 0, m)
  /\ UNCHANGED <<variant, scope, proxy, view, lines, undoStack, redoStack, streaming,
                 controllerRef, turns, nEdits>>

\* Send and Enter call sendMessage() with the active mode, Continue and Erase
\* call it with their own
p5_toolbar(m, input) ==
  /\ m \in TextModes => m = mode
  /\ p5_sendMessage(m, input)

p5_Next ==
  \/ p5_startGameFromSetup
  \/ \E m \in ScopeModes : p5_setMode(m)
  \/ \E m \in ScopeModes, input \in Inputs : p5_toolbar(m, input)
  \/ p5_undo
  \/ p5_redo
  \/ p5_stopStreaming
  \/ \E t \in TurnIds : p5_fetchOk(t)
  \/ \E t \in TurnIds : p5_fetchNotOk(t)
  \/ \E t \in TurnIds : p5_catchError(t)
  \/ \E t \in TurnIds, k \in 1..12 : p5_read(t, k)
  \/ \E t \in TurnIds : p5_readDone(t)

(***************************************************************************)
(* src/App.tsx, the iteration with historyStack (lines 198-600)            *)
(***************************************************************************)
hs_openScenarioLines == << Line(<<"Scenario - ", "title", ": ", "desc">>, "ai"),
                           Line(<<"worldSummary">>, "ai") >>

hs_quickStartLines == << Line(<<"World - Custom World">>, "ai"),
                         Line(<<"A blank world waiting for your story.">>, "ai") >>

hs_customLines(worldTitle, worldSummary) ==
  << Line(<<"World - ">> \o (IF worldTitle # <<>> THEN worldTitle ELSE <<"Custom World">>), "ai"),
     Line(IF worldSummary # <<>> THEN worldSummary
          ELSE <<"A blank world waiting for your story.">>, "ai") >>

hs_begin(initLines) ==
  /\ variant = "hs"
  /\ view = "HOME"
  /\ lines' = initLines
  /\ undoStack' = <<initLines>>
  /\ redoStack' = <<>>
  /\ view' = "GAME"
  /\ op' = Op("start", 0, "")
  /\ UNCHANGED <<variant, scope, proxy, mode, streaming, controllerRef, turns, nEdits>>

hs_openScenario == scope = "wide" /\ hs_begin(hs_openScenarioLines)

hs_quickStart == hs_begin(hs_quickStartLines)

hs_handleStartCustom ==
  /\ scope = "wide"
  /\ \E f \in {<<<<>>, <<>>>>, <<<<"T">>, <<"S">>>>} : hs_begin(hs_customLines(f[1], f[2]))

hs_undone(h) ==
  IF Len(h.undoStack) <= 1 THEN h
  ELSE [lines |-> h.undoStack[Len(h.undoStack) - 1],
        undoStack |-> SubSeq(h.undoStack, 1, Len(h.undoStack) - 1),
        redoStack |-> <<h.undoStack[Len(h.undoStack)]>> \o h.redoStack]

\* hs_redone that pushes the snapshot onto History and leaves the
\* Transcript as it was
hs_redone_keepsTranscript(h) ==
  IF Len(h.redoStack) = 0 THEN h
  ELSE [lines |-> h.lines,
        undoStack |-> Append(h.undoStack, h.redoStack[1]),
        redoStack |-> Tail(h.redoStack)]

hs_redone(h) ==
  IF Len(h.redoStack) = 0 THEN h
  ELSE [lines |-> h.redoStack[1],
        undoStack |-> Append(h.undoStack, h.redoStack[1]),
        redoStack |-> Tail(h.redoStack)]

hs_undo ==
  /\ variant = "hs"
  /\ Edit
  /\ SetHist(hs_undone(Hist))
  /\ op' = Op("undo", 0, "")
  /\ UNCHANGED <<variant, scope, proxy, mode, view, streaming, controllerRef, turns>>

hs_redo ==
  /\ variant = "hs"
  /\ Edit
  /\ SetHist(hs_redone(Hist))
  /\ op' = Op("redo", 0, IF redoStack # <<>> THEN "popped" ELSE "")
  /\ UNCHANGED <<variant, scope, proxy, mode, view, streaming, controllerRef, turns>>

\* prev.pop(); prev.pop()
hs_erased(ls) == SubSeq(ls, 1, Len(ls) - 2)

\* characterName is left empty, so the speaker is "You"
hs_userText(m, input) ==
  IF m = "say" THEN <<"You", " say: ", "\"">> \o input \o <<"\"">>
  ELSE IF m = "do" THEN <<"You", " attempts: ">> \o input
  ELSE IF m = "think" THEN <<"You", " thinks: ">> \o input
  ELSE IF m = "story" THEN <<"You", " narrates: ">> \o input
  ELSE <<"Continue">>

hs_payload(m, input, ls) ==
  Request(IF m = "continue" THEN <<>> ELSE trim(input), slice(texts(ls), HistoryLimit))

\* sendMessage up to its first await
hs_sendMessage(m, input) ==
  /\ variant = "hs"
  /\ view = "GAME"
  /\ IF m # "continue" /\ m # "erase" /\ trim(input) = <<>>
     THEN /\ Edit
          /\ op' = Op("reject", 0, m)
          /\ UNCHANGED <<lines, undoStack, redoStack, streaming, controllerRef, turns>>
     ELSE IF m = "erase"
     THEN /\ Edit
          /\ lines' = hs_erased(lines)
          /\ undoStack' = Append(undoStack, hs_erased(lines))
          /\ op' = Op("erase", 0, m)
          /\ UNCHANGED <<redoStack, streaming, controllerRef, turns>>
     ELSE /\ StartTurn(m, lines, undoStack, hs_payload(m, input, lines))
          /\ lines' = IF m # "continue"
                      THEN Append(lines, Line(hs_userText(m, input), "user"))
                      ELSE lines
          /\ streaming' = TRUE
          /\ controllerRef' = FreeTurn
          /\ op' = Op("submit", FreeTurn, m)
          /\ UNCHANGED <<undoStack, redoStack, nEdits>>
  /\ UNCHANGED <<variant, scope, proxy, mode, view>>

\* the parser callback: the delta (if any) an event's payload yields
hs_deltas(data) ==
  IF data = <<"X">> THEN <<>>
  ELSE LET json == JSONparse(data)
       IN IF json.ok /\ json.kind = "obj" /\ json.content # <<>>
          THEN <<json.content>> ELSE <<>>

RECURSIVE hs_allDeltas(_)
hs_allDeltas(events) ==
  IF events = <<>> THEN <<>>
  ELSE hs_deltas(Head(events)) \o hs_allDeltas(Tail(events))

\* each delta becomes a line of its own
RECURSIVE hs_applyDeltas(_, _)
hs_applyDeltas(ls, ds) ==
  IF ds = <<>> THEN ls
  ELSE hs_applyDeltas(Append(ls, Line(Head(ds), "ai")), Tail(ds))

\* the finally block: historyStack and lines are the values the call captured
hs_finally(t, out) ==
  /\ streaming' = FALSE
  /\ undoStack' = Append(turns[t].capHist, turns[t].capLines)
  /\ controllerRef' = 0
  /\ turns' = [turns EXCEPT ![t].pc = "done", ![t].out = out]

hs_fetchOk(t) == variant = "hs" /\ FetchOk(t)

hs_fetchNotOk(t) ==
  /\ variant = "hs"
  /\ turns[t].pc = "fetch"
  /\ lines' = appendLine(lines, <<"(error) ", "detail">>, "ai")
  /\ hs_finally(t, "httperr")
  /\ op' = Op("fetchNotOk", t, "")
  /\ UNCHANGED <<variant, scope, proxy, mode, view, redoStack, nEdits>>

hs_catchError(t) ==
  /\ variant = "hs"
  /\ turns[t].pc \in {"fetch", "read"}
  /\ lines' = appendLine(lines, <<"(stream error) ", "message">>, "ai")
  /\ hs_finally(t, "neterr")
  /\ op' = Op("catchError", t, "")
  /\ UNCHANGED <<variant, scope, proxy, mode, view, redoStack, nEdits>>

hs_read(t, k) ==
  /\ variant = "hs"
  /\ CanRead(t, k)
  /\ LET ps == feed(turns[t].buf, turns[t].data, SubSeq(turns[t].wire, 1, k))
         ds == hs_allDeltas(ps.events)
     IN /\ lines' = hs_applyDeltas(lines, ds)
        /\ turns' = AfterRead(t, k, ps, ds)
  /\ op' = Op("read", t, "")
  /\ UNCHANGED <<variant, scope, proxy, mode, view, undoStack, redoStack, streaming,
                 controllerRef, nEdits>>

hs_readDone(t) ==
  /\ variant = "hs"
  /\ turns[t].pc = "read"
  /\ turns[t].wire = <<>>
  /\ hs_finally(t, "ok")
  /\ op' = Op("readDone", t, "")
  /\ UNCHANGED <<variant, scope, proxy, mode, view, lines, redoStack, nEdits>>

hs_Next ==
  \/ hs_openScenario
  \/ hs_quickStart
  \/ hs_handleStartCustom
  \/ \E m \in ScopeModes, input \in Inputs : hs_sendMessage(m, input)
  \/ hs_undo
  \/ hs_redo
  \/ \E t \in TurnIds : hs_fetchOk(t)
  \/ \E t \in TurnIds : hs_fetchNotOk(t)
  \/ \E t \in TurnIds : hs_catchError(t)
  \/ \E t \in TurnIds, k \in 1..12 : hs_read(t, k)
  \/ \E t \in TurnIds : hs_readDone(t)

(***************************************************************************)
(* part_004: no history stacks, one line per event                         *)
(***************************************************************************)
p4_startGameFromSetup ==
  /\ variant = "p4"
  /\ view = "HOME"
  /\ \E s \in p5_Seeds : lines' = p5_initial(s[1], s[2], s[3])
  /\ op' = Op("start", 0, "")
  /\ view' = "GAME"
  /\ UNCHANGED <<variant, scope, proxy, mode, undoStack, redoStack, streaming, controllerRef,
                 turns, nEdits>>

p4_erased(prev) ==
  LET ai == LastIndexOf(prev, "ai")
      c1 == IF ai = 0 THEN prev ELSE RemoveAt(prev, ai)
      us == LastIndexOf(c1, "user")
  IN IF us = 0 THEN c1 ELSE RemoveAt(c1, us)

p4_userText(m, input) ==
  IF m = "say" THEN <<"You say: ", "\"">> \o trim(input) \o <<"\"">>
  ELSE IF m = "do" THEN <<"You attempt: ">> \o trim(input)
  ELSE IF m = "think" THEN <<"You think: ">> \o trim(input)
  ELSE IF m = "story" THEN <<"You narrate: ">> \o trim(input)
  ELSE <<"Continue">>

\* the request carries no history
p4_payload(m, input) ==
  Request(IF m = "continue" THEN <<>> ELSE p4_userText(m, input), <<>>)

\* sendMessage up to its first await
p4_sendMessage(m, input) ==
  /\ variant = "p4"
  /\ view = "GAME"
  /\ IF m = "erase"
     THEN /\ Edit
          /\ lines' = p4_erased(lines)
          /\ op' = Op("erase", 0, m)
          /\ UNCHANGED <<streaming, controllerRef, turns>>
     ELSE IF m # "continue" /\ Len(trim(input)) = 0
     THEN /\ Edit
          /\ op' = Op("reject", 0, m)
          /\ UNCHANGED <<lines, streaming, controllerRef, turns>>
     ELSE /\ StartTurn(m, <<>>, <<>>, p4_payload(m, input))
          /\ lines' = IF m # "continue"
                      THEN appendLine(lines, p4_userText(m, input), "user")
                      ELSE lines
          /\ streaming' = TRUE
          /\ controllerRef' = FreeTurn
          /\ op' = Op("submit", FreeTurn, m)
          /\ UNCHANGED nEdits
  /\ UNCHANGED <<variant, scope, proxy, mode, view, undoStack, redoStack>>

\* the parser callback: the delta (if any) an event's payload yields
p4_deltas(data) ==
  IF data = <<"X">> THEN <<>>
  ELSE LET parsed == JSONparse(data)
       IN IF ~parsed.ok THEN <<data>>
          ELSE IF parsed.kind = "obj" /\ parsed.content # <<>> THEN <<parsed.content>>
          ELSE IF parsed.kind = "str" THEN <<parsed.content>>
          ELSE <<>>

RECURSIVE p4_allDeltas(_)
p4_allDeltas(events) ==
  IF events = <<>> THEN <<>>
  ELSE p4_deltas(Head(events)) \o p4_allDeltas(Tail(events))

\* each delta becomes a line of its own
RECURSIVE p4_applyDeltas(_, _)
p4_applyDeltas(ls, ds) ==
  IF ds = <<>> THEN ls
  ELSE p4_applyDeltas(appendLine(ls, Head(ds), "ai"), Tail(ds))

p4_finally(t, out) ==
  /\ streaming' = FALSE
  /\ controllerRef' = 0
  /\ turns' = [turns EXCEPT ![t].pc = "done", ![t].out = out]

p4_fetchOk(t) == variant = "p4" /\ FetchOk(t)

p4_fetchNotOk(t) ==
  /\ variant = "p4"
  /\ turns[t].pc = "fetch"
  /\ lines' = appendLine(lines, <<"(error) ", "detail">>, "ai")
  /\ p4_finally(t, "httperr")
  /\ op' = Op("fetchNotOk", t, "")
  /\ UNCHANGED <<variant, scope, proxy, mode, view, undoStack, redoStack, nEdits>>

p4_catchError(t) ==
  /\ variant = "p4"
  /\ turns[t].pc \in {"fetch", "read"}
  /\ lines' = appendLine(lines, <<"(network error) ", "message">>, "ai")
  /\ p4_finally(t, "neterr")
  /\ op' = Op("catchError", t, "")
  /\ UNCHANGED <<variant, scope, proxy, mode, view, undoStack, redoStack, nEdits>>

p4_read(t, k) ==
  /\ variant = "p4"
  /\ CanRead(t, k)
  /\ LET ps == feed(turns[t].buf, turns[t].data, SubSeq(turns[t].wire, 1, k))
         ds == p4_allDeltas(ps.events)
     IN /\ lines' = p4_applyDeltas(lines, ds)
        /\ turns' = AfterRead(t, k, ps, ds)
  /\ op' = Op("read", t, "")
  /\ UNCHANGED <<variant, scope, proxy, mode, view, undoStack, redoStack, streaming,
                 controllerRef, nEdits>>

p4_readDone(t) ==
  /\ variant = "p4"
  /\ turns[t].pc = "read"
  /\ turns[t].wire = <<>>
  /\ p4_finally(t, "ok")
  /\ op' = Op("readDone", t, "")
  /\ UNCHANGED <<variant, scope, proxy, mode, view, lines, undoStack, redoStack, nEdits>>

\* prev.slice(0, Math.max(0, prev.length - 2))
p4_undo ==
  /\ variant = "p4"
  /\ view = "GAME"
  /\ Edit
  /\ lines' = SubSeq(lines, 1, IF Len(lines) - 2 > 0 THEN Len(lines) - 2 ELSE 0)
  /\ op' = Op("undo", 0, "")
  /\ UNCHANGED <<variant, scope, proxy, mode, view, undoStack, redoStack, streaming,
                 controllerRef, turns>>

\* the redo stack is not implemented
p4_redo ==
  /\ variant = "p4"
  /\ view = "GAME"
  /\ Edit
  /\ op' = Op("redo", 0, "")
  /\ UNCHANGED <<variant, scope, proxy, mode, view, lines, undoStack, redoStack, streaming,
                 controllerRef, turns>>

\* the mode buttons Do / Say / Think / Story
p4_setMode(m) ==
  /\ variant = "p4"
  /\ view = "GAME"
  /\ m \in TextModes
  /\ mode # m
  /\ mode' = m
  /\ op' = Op("setMode", 0, m)
  /\ UNCHANGED <<variant, scope, proxy, view, lines, undoStack, redoStack, streaming,
                 controllerRef, turns, nEdits>>

\* Send and Enter call sendMessage() with the active mode, Continue and Erase
\* call it with their own
p4_toolbar(m, input) ==
  /\ m \in TextModes => m = mode
  /\ p4_sendMessage(m, input)

p4_Next ==
  \/ p4_startGameFromSetup
  \/ \E m \in ScopeModes : p4_setMode(m)
  \/ \E m \in ScopeModes, input \in Inputs : p4_toolbar(m, input)
  \/ p4_undo
  \/ p4_redo
  \/ \E t \in TurnIds : p4_fetchOk(t)
  \/ \E t \in TurnIds : p4_fetchNotOk(t)
  \/ \E t \in TurnIds : p4_catchError(t)
  \/ \E t \in TurnIds, k \in 1..12 : p4_read(t, k)
  \/ \E t \in TurnIds : p4_readDone(t)

(***************************************************************************)
(* part_008, first App: lines are plain strings, the reply is the raw      *)
(* bytes written over the last line                                        *)
(***************************************************************************)
p8_startGame ==
  /\ variant = "p8"
  /\ view = "HOME"
  /\ lines' = << Line(<<"Scene - ", "title", ": ", "desc">>, "ai"),
                 Line(<<"worldSummary">>, "ai") >>
  /\ op' = Op("start", 0, "")
  /\ view' = "GAME"
  /\ UNCHANGED <<variant, scope, proxy, mode, undoStack, redoStack, streaming, controllerRef,
                 turns, nEdits>>

p8_msgPayload(usedMode, input) ==
  IF usedMode = "continue" THEN <<"[CONTINUE]">> ELSE trim(input)

p8_cue(usedMode, msgPayload) ==
  IF usedMode = "say" THEN <<"You say: ", "\"">> \o msgPayload \o <<"\"">>
  ELSE IF usedMode = "do" THEN <<"You do: ">> \o msgPayload
  ELSE IF usedMode = "think" THEN <<"You think: ">> \o msgPayload
  ELSE IF usedMode = "story" THEN <<"You narrate: ">> \o msgPayload
  ELSE <<"Continue:">>

p8_payload(usedMode, input, ls) ==
  Request(p8_msgPayload(usedMode, input), slice(texts(ls), HistoryLimit))

\* sendMessage up to its first await
p8_sendMessage(usedMode, input) ==
  /\ variant = "p8"
  /\ view = "GAME"
  /\ usedMode # "erase"
  /\ IF p8_msgPayload(usedMode, input) = <<>>
     THEN /\ Edit
          /\ op' = Op("reject", 0, usedMode)
          /\ UNCHANGED <<lines, streaming, controllerRef, turns>>
     ELSE /\ StartTurn(usedMode, <<>>, <<>>, p8_payload(usedMode, input, lines))
          /\ lines' = appendLine(lines, p8_cue(usedMode, p8_msgPayload(usedMode, input)), "user")
          /\ streaming' = TRUE
          /\ controllerRef' = FreeTurn
          /\ op' = Op("submit", FreeTurn, usedMode)
          /\ UNCHANGED nEdits
  /\ UNCHANGED <<variant, scope, proxy, view, undoStack, redoStack>>

p8_finally(t, out) ==
  /\ streaming' = FALSE
  /\ controllerRef' = 0
  /\ turns' = [turns EXCEPT ![t].pc = "done", ![t].out = out]

\* fetch resolved: the assistant placeholder is appended
p8_fetchOk(t) ==
  /\ variant = "p8"
  /\ turns[t].pc = "fetch"
  /\ \E r \in Responses :
       turns' = [turns EXCEPT ![t].pc = "read", ![t].wire = r.wire, ![t].cuts = r.cuts]
  /\ lines' = appendLine(lines, <<>>, "ai")
  /\ op' = Op("fetchOk", t, "")
  /\ UNCHANGED <<variant, scope, proxy, mode, view, undoStack, redoStack, streaming,
                 controllerRef, nEdits>>

p8_fetchNotOk(t) ==
  /\ variant = "p8"
  /\ turns[t].pc = "fetch"
  /\ lines' = appendLine(lines, <<"(error) ", "detail">>, "ai")
  /\ p8_finally(t, "httperr")
  /\ op' = Op("fetchNotOk", t, "")
  /\ UNCHANGED <<variant, scope, proxy, mode, view, undoStack, redoStack, nEdits>>

p8_catchError(t) ==
  /\ variant = "p8"
  /\ turns[t].pc \in {"fetch", "read"}
  /\ lines' = appendLine(lines, <<"(stream error) ", "message">>, "ai")
  /\ p8_finally(t, "neterr")
  /\ op' = Op("catchError", t, "")
  /\ UNCHANGED <<variant, scope, proxy, mode, view, undoStack, redoStack, nEdits>>

\* the last element of the list is replaced by the text received so far
p8_replaceTail(prev, tailText) ==
  IF Len(prev) = 0 THEN <<Line(tailText, "ai")>>
  ELSE [prev EXCEPT ![Len(prev)] = Line(tailText, "ai")]

p8_read(t, k) ==
  /\ variant = "p8"
  /\ CanRead(t, k)
  /\ LET chunk == SubSeq(turns[t].wire, 1, k)
         tailText == turns[t].tailText \o chunk
     IN /\ lines' = p8_replaceTail(lines, tailText)
        /\ turns' = [AfterRead(t, k, [buf |-> <<>>, data |-> <<>>], <<chunk>>)
                       EXCEPT ![t].tailText = tailText]
  /\ op' = Op("read", t, "")
  /\ UNCHANGED <<variant, scope, proxy, mode, view, undoStack, redoStack, streaming,
                 controllerRef, nEdits>>

p8_readDone(t) ==
  /\ variant = "p8"
  /\ turns[t].pc = "read"
  /\ turns[t].wire = <<>>
  /\ p8_finally(t, "ok")
  /\ op' = Op("readDone", t, "")
  /\ UNCHANGED <<variant, scope, proxy, mode, view, lines, undoStack, redoStack, nEdits>>

\* the Stop button aborts the controller; the pending fetch or read rejects
\* with an AbortError and the catch and finally blocks of that turn run
p8_stopStream ==
  /\ variant = "p8"
  /\ view = "GAME"
  /\ streaming
  /\ Edit
  /\ IF controllerRef # 0 /\ turns[controllerRef].pc \in {"fetch", "read"}
     THEN /\ lines' = appendLine(lines, <<"(stream aborted)">>, "ai")
          /\ p8_finally(controllerRef, "abort")
     ELSE UNCHANGED <<lines, turns, streaming, controllerRef>>
  /\ op' = Op("stop", controllerRef, "")
  /\ UNCHANGED <<variant, scope, proxy, mode, view, undoStack, redoStack>>

\* the mode buttons Do / Say / Think / Story
p8_setMode(m) ==
  /\ variant = "p8"
  /\ view = "GAME"
  /\ m \in TextModes
  /\ mode # m
  /\ mode' = m
  /\ op' = Op("setMode", 0, m)
  /\ UNCHANGED <<variant, scope, proxy, view, lines, undoStack, redoStack, streaming,
                 controllerRef, turns, nEdits>>

\* Send and Enter: sendMessage() with the active mode
p8_send(input) ==
  /\ mode \in ScopeModes
  /\ p8_sendMessage(mode, input)
  /\ UNCHANGED mode

\* the Continue button: setMode("continue"); sendMessage("continue")
p8_continue(input) ==
  /\ "continue" \in ScopeModes
  /\ p8_sendMessage("continue", input)
  /\ mode' = "continue"

p8_Next ==
  \/ p8_startGame
  \/ \E m \in ScopeModes : p8_setMode(m)
  \/ \E input \in Inputs : p8_send(input)
  \/ \E input \in Inputs : p8_continue(input)
  \/ p8_stopStream
  \/ \E t \in TurnIds : p8_fetchOk(t)
  \/ \E t \in TurnIds : p8_fetchNotOk(t)
  \/ \E t \in TurnIds : p8_catchError(t)
  \/ \E t \in TurnIds, k \in 1..12 : p8_read(t, k)
  \/ \E t \in TurnIds : p8_readDone(t)

(***************************************************************************)
(* src/App.tsx, the iteration with send() (lines 642-933): modes ACT,      *)
(* SPEAK and SYSTEM, the reply is the raw bytes appended to the line with  *)
(* the assistant id                                                        *)
(***************************************************************************)
sv_Modes == IF scope = "wide" THEN {"ACT", "SPEAK", "SYSTEM"} ELSE {"SPEAK"}

sv_openScenario ==
  /\ variant = "sv"
  /\ view = "HOME"
  /\ lines' = << Line(<<"title", " - ", "desc">>, "ai"), Line(<<"storySummary">>, "ai") >>
  /\ op' = Op("start", 0, "")
  /\ view' = "GAME"
  /\ UNCHANGED <<variant, scope, proxy, mode, undoStack, redoStack, streaming, controllerRef,
                 turns, nEdits>>

sv_cue(m, input) ==
  IF m = "SPEAK" THEN <<"You say: ", "\"">> \o input \o <<"\"">>
  ELSE IF m = "ACT" THEN <<"You attempt: ">> \o input
  ELSE <<"System: ">> \o input

sv_payload(input, ls) == Request(input, slice(texts(ls), sv_HistoryLimit))

\* send up to its first await
sv_send(m, input) ==
  /\ variant = "sv"
  /\ view = "GAME"
  /\ IF trim(input) = <<>> \/ streaming
     THEN /\ Edit
          /\ op' = Op("reject", 0, m)
          /\ UNCHANGED <<lines, streaming, controllerRef, turns>>
     ELSE /\ StartTurn(m, <<>>, <<>>, sv_payload(input, lines))
          /\ lines' = appendLine(lines, sv_cue(m, input), "user")
          /\ streaming' = TRUE
          /\ controllerRef' = FreeTurn
          /\ op' = Op("submit", FreeTurn, m)
          /\ UNCHANGED nEdits
  /\ UNCHANGED <<variant, scope, proxy, mode, view, undoStack, redoStack>>

sv_finally(t, out) ==
  /\ streaming' = FALSE
  /\ controllerRef' = 0
  /\ turns' = [turns EXCEPT ![t].pc = "done", ![t].out = out]

\* fetch resolved: the placeholder with the assistant id is appended
sv_fetchOk(t) ==
  /\ variant = "sv"
  /\ turns[t].pc = "fetch"
  /\ \E r \in Responses :
       turns' = [turns EXCEPT ![t].pc = "read", ![t].wire = r.wire, ![t].cuts = r.cuts]
  /\ lines' = Append(lines, [text |-> <<>>, who |-> "ai", id |-> t])
  /\ op' = Op("fetchOk", t, "")
  /\ UNCHANGED <<variant, scope, proxy, mode, view, undoStack, redoStack, streaming,
                 controllerRef, nEdits>>

sv_fetchNotOk(t) ==
  /\ variant = "sv"
  /\ turns[t].pc = "fetch"
  /\ lines' = appendLine(lines, <<"(error) ", "detail">>, "ai")
  /\ sv_finally(t, "httperr")
  /\ op' = Op("fetchNotOk", t, "")
  /\ UNCHANGED <<variant, scope, proxy, mode, view, undoStack, redoStack, nEdits>>

sv_catchError(t) ==
  /\ variant = "sv"
  /\ turns[t].pc \in {"fetch", "read"}
  /\ lines' = appendLine(lines, <<"(stream error) ", "message">>, "ai")
  /\ sv_finally(t, "neterr")
  /\ op' = Op("catchError", t, "")
  /\ UNCHANGED <<variant, scope, proxy, mode, view, undoStack, redoStack, nEdits>>

sv_appendChunk(prev, assistantId, chunk) ==
  [i \in 1..Len(prev) |->
     IF prev[i].id = assistantId
     THEN [prev[i] EXCEPT !.text = prev[i].text \o chunk]
     ELSE prev[i]]

sv_read(t, k) ==
  /\ variant = "sv"
  /\ CanRead(t, k)
  /\ LET chunk == SubSeq(turns[t].wire, 1, k)
     IN /\ lines' = sv_appendChunk(lines, t, chunk)
        /\ turns' = AfterRead(t, k, [buf |-> <<>>, data |-> <<>>], <<chunk>>)
  /\ op' = Op("read", t, "")
  /\ UNCHANGED <<variant, scope, proxy, mode, view, undoStack, redoStack, streaming,
                 controllerRef, nEdits>>

sv_readDone(t) ==
  /\ variant = "sv"
  /\ turns[t].pc = "read"
  /\ turns[t].wire = <<>>
  /\ sv_finally(t, "ok")
  /\ op' = Op("readDone", t, "")
  /\ UNCHANGED <<variant, scope, proxy, mode, view, lines, undoStack, redoStack, nEdits>>

\* the Stop button aborts the controller; the pending fetch or read rejects
\* with an AbortError and the catch and finally blocks of that turn run
sv_stopStream ==
  /\ variant = "sv"
  /\ view = "GAME"
  /\ streaming
  /\ Edit
  /\ IF controllerRef # 0 /\ turns[controllerRef].pc \in {"fetch", "read"}
     THEN /\ lines' = appendLine(lines, <<"(stream aborted)">>, "ai")
          /\ sv_finally(controllerRef, "abort")
     ELSE UNCHANGED <<lines, turns, streaming, controllerRef>>
  /\ op' = Op("stop", controllerRef, "")
  /\ UNCHANGED <<variant, scope, proxy, mode, view, undoStack, redoStack>>

sv_Next ==
  \/ sv_openScenario
  \/ \E m \in sv_Modes, input \in Inputs : sv_send(m, input)
  \/ sv_stopStream
  \/ \E t \in TurnIds : sv_fetchOk(t)
  \/ \E t \in TurnIds : sv_fetchNotOk(t)
  \/ \E t \in TurnIds : sv_catchError(t)
  \/ \E t \in TurnIds, k \in 1..12 : sv_read(t, k)
  \/ \E t \in TurnIds : sv_readDone(t)

(***************************************************************************)
(* part_000, GameInterface.sendAction: every read is split on blank lines  *)
(* on its own; no mode, no Streaming flag, no controller, no try / catch   *)
(***************************************************************************)
p0_seed ==
  /\ variant = "p0"
  /\ view = "HOME"
  /\ lines' = <<Line(<<"scenario">>, "ai")>>
  /\ op' = Op("start", 0, "")
  /\ view' = "GAME"
  /\ UNCHANGED <<variant, scope, proxy, mode, undoStack, redoStack, streaming, controllerRef,
                 turns, nEdits>>

\* input || '...'
p0_userPrompt(input) == IF input = <<>> THEN <<"...">> ELSE input

\* the prompt, with an empty lorebook; the request carries no history
p0_payload(input) == Request(p0_userPrompt(input), <<>>)

\* sendAction up to its first await
p0_sendAction(input) ==
  /\ variant = "p0"
  /\ view = "GAME"
  /\ StartTurn("", <<>>, <<>>, p0_payload(input))
  /\ lines' = appendLine(lines, p0_userPrompt(input), "user")
  /\ op' = Op("submit", FreeTurn, "")
  /\ UNCHANGED <<variant, scope, proxy, mode, view, undoStack, redoStack, streaming,
                 controllerRef, nEdits>>

\* chunk.split('\n\n')
RECURSIVE p0_split(_, _)
p0_split(cur, rest) ==
  IF rest = <<>> THEN <<cur>>
  ELSE IF Len(rest) >= 2 /\ rest[1] = "N" /\ rest[2] = "N"
       THEN <<cur>> \o p0_split(<<>>, SubSeq(rest, 3, Len(rest)))
       ELSE p0_split(Append(cur, Head(rest)), Tail(rest))

\* the for loop over the parts of one chunk: acc = [texts, done]
RECURSIVE p0_parts(_, _)
p0_parts(acc, parts) ==
  IF parts = <<>> THEN acc
  ELSE LET part == Head(parts)
           raw == trim(Tail(part))
           json == JSONparse(raw)
       IN IF part = <<>> \/ Head(part) # "D" THEN p0_parts(acc, Tail(parts))
          ELSE IF raw = <<"X">> THEN [acc EXCEPT !.done = TRUE]
          ELSE IF ~json.ok THEN p0_parts(acc, Tail(parts))
          ELSE p0_parts([acc EXCEPT !.texts =
                           Append(acc.texts, IF json.kind = "str" THEN json.content
                                             ELSE <<"[object Object]">>)],
                        Tail(parts))

p0_chunk(chunk) == p0_parts([texts |-> <<>>, done |-> FALSE], p0_split(<<>>, chunk))

\* last.text = (last.text || '') + text, on whatever message is last
RECURSIVE p0_applyTexts(_, _)
p0_applyTexts(ls, ds) ==
  IF ds = <<>> THEN ls
  ELSE p0_applyTexts(
         IF Len(ls) = 0 THEN ls
         ELSE [ls EXCEPT ![Len(ls)].text = ls[Len(ls)].text \o Head(ds)],
         Tail(ds))

\* fetch resolved with a body: the assistant placeholder is appended
p0_fetchOk(t) ==
  /\ variant = "p0"
  /\ turns[t].pc = "fetch"
  /\ \E r \in Responses :
       turns' = [turns EXCEPT ![t].pc = "read", ![t].wire = r.wire, ![t].cuts = r.cuts]
  /\ lines' = appendLine(lines, <<>>, "ai")
  /\ op' = Op("fetchOk", t, "")
  /\ UNCHANGED <<variant, scope, proxy, mode, view, undoStack, redoStack, streaming,
                 controllerRef, nEdits>>

\* !res.body
p0_fetchNoBody(t) ==
  /\ variant = "p0"
  /\ turns[t].pc = "fetch"
  /\ lines' = appendLine(lines, <<"Error: no body from API">>, "ai")
  /\ turns' = [turns EXCEPT ![t].pc = "done", ![t].out = "httperr"]
  /\ op' = Op("fetchNotOk", t, "")
  /\ UNCHANGED <<variant, scope, proxy, mode, view, undoStack, redoStack, streaming,
                 controllerRef, nEdits>>

\* fetch or reader.read rejected: nothing catches it
p0_threw(t) ==
  /\ variant = "p0"
  /\ turns[t].pc \in {"fetch", "read"}
  /\ turns' = [turns EXCEPT ![t].pc = "done", ![t].out = "neterr"]
  /\ op' = Op("catchError", t, "")
  /\ UNCHANGED <<variant, scope, proxy, mode, view, lines, undoStack, redoStack, streaming,
                 controllerRef, nEdits>>

\* one pass of the read loop; the sentinel ends the loop
p0_read(t, k) ==
  /\ variant = "p0"
  /\ CanRead(t, k)
  /\ LET r == p0_chunk(SubSeq(turns[t].wire, 1, k))
         after == AfterRead(t, k, [buf |-> <<>>, data |-> <<>>], r.texts)
     IN /\ lines' = p0_applyTexts(lines, r.texts)
        /\ turns' = IF r.done
                    THEN [after EXCEPT ![t].pc = "done", ![t].out = "ok"]
                    ELSE after
  /\ op' = Op("read", t, "")
  /\ UNCHANGED <<variant, scope, proxy, mode, view, undoStack, redoStack, streaming,
                 controllerRef, nEdits>>

p0_readDone(t) ==
  /\ variant = "p0"
  /\ turns[t].pc = "read"
  /\ turns[t].wire = <<>>
  /\ turns' = [turns EXCEPT ![t].pc = "done", ![t].out = "ok"]
  /\ op' = Op("readDone", t, "")
  /\ UNCHANGED <<variant, scope, proxy, mode, view, lines, undoStack, redoStack, streaming,
                 controllerRef, nEdits>>

p0_Next ==
  \/ p0_seed
  \/ \E input \in Inputs \cup {<<>>} : p0_sendAction(input)
  \/ \E t \in TurnIds : p0_fetchOk(t)
  \/ \E t \in TurnIds : p0_fetchNoBody(t)
  \/ \E t \in TurnIds : p0_threw(t)
  \/ \E t \in TurnIds, k \in 1..12 : p0_read(t, k)
  \/ \E t \in TurnIds : p0_readDone(t)

(***************************************************************************)
(* part_002, GameToolbar: one button per mode key, the one clicked last is *)
(* the active one                                                          *)
(***************************************************************************)
p2_handleClick(m) ==
  /\ variant = "p2"
  /\ mode # m
  /\ mode' = m
  /\ op' = Op("setMode", 0, m)
  /\ UNCHANGED <<variant, scope, proxy, view, lines, undoStack, redoStack, streaming,
                 controllerRef, turns, nEdits>>

p2_Next == \E m \in TextModes \cup {"continue", "erase"} : p2_handleClick(m)

(***************************************************************************)
(* The proxy: the handler of /api/chat.  Five iterations:                  *)
(*   api   src/api/chat.ts lines 39-236       (splits every read on its    *)
(*                                              own, sseWrite frames)      *)
(*   p12a  src/unnamed/part_012 lines 3-96    (buffer, returns on [DONE])  *)
(*   p12b  src/unnamed/part_012 lines 116-231 (buffer, try / catch)        *)
(*   p11c  src/unnamed/part_011 lines 247-324 (eventsource-parser)         *)
(*   p11a  src/unnamed/part_011 lines 7-97    (edge runtime, a             *)
(*                                              ReadableStream)            *)
(*                                                                         *)
(* The upstream service answers in the chat-completions framing; two more  *)
(* atoms spell it:                                                         *)
(*   "{d"  the bytes `{"choices":[{"delta":{"content":"`                   *)
(*   "d}"  the bytes `"}}]}`                                               *)
(* The variable `proxy` is the handler's position (pc), whether it has     *)
(* begun an event-stream response (started), the upstream bytes still to   *)
(* arrive (wire) and the sizes of the reads that deliver them (cuts), the  *)
(* handler's buffer (buffer, data), the upstream bytes read (sent), the    *)
(* frames written to the response (frames), whether the response was       *)
(* ended (ended) and whether a write was attempted after that (late).      *)
(***************************************************************************)
ProxyVariants == {"api", "p12a", "p12b", "p11c", "p11a"}

client == <<view, mode, lines, undoStack, redoStack, streaming, controllerRef,
            turns, op, nEdits>>

IdleProxy == [pc |-> "idle", started |-> FALSE, wire |-> <<>>, cuts |-> <<>>,
              buffer |-> <<>>, data |-> <<>>, sent |-> <<>>, frames |-> <<>>,
              ended |-> FALSE, late |-> FALSE]

\* a frame written to the response:
\*   "content"  data: {"content":"<text>"}     "error"  data: {"error":"..."}
\*   "text"     data: <text>                   "done"   data: [DONE]
\*   "plain"    bytes outside the event framing
Frame(k, t) == [k |-> k, text |-> t]

DoneFrame == Frame("done", <<"X">>)

\* res.write / controller.enqueue
res_write(p, f) ==
  IF p.ended THEN [p EXCEPT !.late = TRUE] ELSE [p EXCEPT !.frames = Append(@, f)]

RECURSIVE res_writeAll(_, _)
res_writeAll(p, fs) ==
  IF fs = <<>> THEN p ELSE res_writeAll(res_write(p, Head(fs)), Tail(fs))

\* res.end / controller.close
res_end(p) == [p EXCEPT !.ended = TRUE]

UpEventA == <<"D", "{d", "a", "d}", "N", "N">>
UpEventB == <<"D", "{d", "b", "d}", "N", "N">>
UpSentinel == <<"D", "X", "N", "N">>

UpTwo == UpEventA \o UpEventB \o UpSentinel
UpNoDone == UpEventA \o UpEventB
UpAfterDone == UpEventA \o UpSentinel \o UpEventB

\* the upstream bytes arrive in one read or in two, split at any place
UpCuts(w) == {<<Len(w)>>} \cup {<<k, Len(w) - k>> : k \in 1..(Len(w) - 1)}

Upstreams ==
  UNION {{Response(w, c) : c \in UpCuts(w)} : w \in {UpTwo, UpNoDone, UpAfterDone}}

\* JSON.parse on an upstream payload
UpParse(p) ==
  IF Len(p) >= 2 /\ p[1] = "{d" /\ p[Len(p)] = "d}" /\ AllLetters(Middle(p))
  THEN [ok |-> TRUE, kind |-> "choices", content |-> Middle(p)]
  ELSE JSONparse(p)

\* the value of the pending read
ProxyChunk == SubSeq(proxy.wire, 1, Head(proxy.cuts))

\* the handler's state once the pending read has returned
Taken(p) ==
  [p EXCEPT !.wire = SubSeq(p.wire, Head(p.cuts) + 1, Len(p.wire)),
            !.cuts = Tail(p.cuts),
            !.sent = p.sent \o SubSeq(p.wire, 1, Head(p.cuts))]

CanTake == proxy.pc = "read" /\ proxy.cuts # <<>>

\* the upstream fetch resolved with a body to read
ProxyFetchOk(started) ==
  /\ proxy.pc = "fetch"
  /\ \E r \in Upstreams :
       proxy' = [proxy EXCEPT !.pc = "read", !.wire = r.wire, !.cuts = r.cuts,
                              !.started = started]
  /\ UNCHANGED <<variant, scope, client>>

\* s.split("\n")
RECURSIVE splitLines(_, _)
splitLines(cur, rest) ==
  IF rest = <<>> THEN <<cur>>
  ELSE IF Head(rest) = "N" THEN <<cur>> \o splitLines(<<>>, Tail(rest))
  ELSE splitLines(Append(cur, Head(rest)), Tail(rest))

(***************************************************************************)
(* src/api/chat.ts                                                         *)
(***************************************************************************)
\* the frames one part of a chunk yields
api_frames(part) ==
  LET trimmed == trim(part)
      cleaned == IF trimmed # <<>> /\ Head(trimmed) = "D"
                 THEN TrimLeft(Tail(trimmed)) ELSE trimmed
      parsed == UpParse(cleaned)
  IN IF trimmed = <<>> THEN <<>>
     ELSE IF parsed.ok /\ parsed.kind \in {"choices", "obj"} /\ parsed.content # <<>>
     THEN <<Frame("content", parsed.content)>>
     ELSE IF parsed.ok /\ parsed.kind = "choices" THEN <<>>
     ELSE <<Frame("content", cleaned)>>

RECURSIVE api_parts(_)
api_parts(parts) ==
  IF parts = <<>> THEN <<>> ELSE api_frames(Head(parts)) \o api_parts(Tail(parts))

\* sseWrite(res, { error: ... }); res.write("data: [DONE]\n\n"); res.end()
api_fail(p) ==
  [res_end(res_writeAll(p, <<Frame("error", <<"message">>), DoneFrame>>))
     EXCEPT !.pc = "end"]

\* the handler up to its first await: the event-stream response is begun
\* before the API key is looked at
api_handler(hasKey) ==
  /\ variant = "api"
  /\ proxy.pc = "idle"
  /\ proxy' = IF hasKey THEN [proxy EXCEPT !.pc = "fetch", !.started = TRUE]
              ELSE api_fail([proxy EXCEPT !.started = TRUE])
  /\ UNCHANGED <<variant, scope, client>>

api_fetchOk == variant = "api" /\ ProxyFetchOk(TRUE)

\* !upstreamResp.ok || !upstreamResp.body
api_fetchNotOk ==
  /\ variant = "api"
  /\ proxy.pc = "fetch"
  /\ proxy' = api_fail(proxy)
  /\ UNCHANGED <<variant, scope, client>>

\* fetch or reader.read rejected: the catch block
api_threw ==
  /\ variant = "api"
  /\ proxy.pc \in {"fetch", "read"}
  /\ proxy' = api_fail(proxy)
  /\ UNCHANGED <<variant, scope, client>>

\* one pass of the read loop
api_read ==
  /\ variant = "api"
  /\ CanTake
  /\ proxy' = res_writeAll(Taken(proxy), api_parts(p0_split(<<>>, ProxyChunk)))
  /\ UNCHANGED <<variant, scope, client>>

\* the read that reports done
api_readDone ==
  /\ variant = "api"
  /\ proxy.pc = "read"
  /\ proxy.cuts = <<>>
  /\ proxy' = [res_end(res_write(proxy, DoneFrame)) EXCEPT !.pc = "end"]
  /\ UNCHANGED <<variant, scope, client>>

api_Next ==
  \/ \E hasKey \in BOOLEAN : api_handler(hasKey)
  \/ api_fetchOk
  \/ api_fetchNotOk
  \/ api_threw
  \/ api_read
  \/ api_readDone

(***************************************************************************)
(* part_012, first handler: a buffer across reads, return on [DONE]        *)
(***************************************************************************)
\* res.status(...) with a body outside the event framing, then the end
ProxyPlain(p) == [res_end(res_write(p, Frame("plain", <<"message">>))) EXCEPT !.pc = "end"]

p12a_handler(hasKey) ==
  /\ variant = "p12a"
  /\ proxy.pc = "idle"
  /\ proxy' = IF hasKey THEN [proxy EXCEPT !.pc = "fetch"] ELSE ProxyPlain(proxy)
  /\ UNCHANGED <<variant, scope, client>>

p12a_fetchOk == variant = "p12a" /\ ProxyFetchOk(TRUE)

\* !upstream.ok || !upstream.body
p12a_fetchNotOk ==
  /\ variant = "p12a"
  /\ proxy.pc = "fetch"
  /\ proxy' = ProxyPlain(proxy)
  /\ UNCHANGED <<variant, scope, client>>

\* fetch or reader.read rejected: nothing catches it
p12a_threw ==
  /\ variant = "p12a"
  /\ proxy.pc \in {"fetch", "read"}
  /\ proxy' = [proxy EXCEPT !.pc = "end"]
  /\ UNCHANGED <<variant, scope, client>>

\* the for loop over the complete parts of the buffer
RECURSIVE p12a_parts(_, _)
p12a_parts(p, parts) ==
  IF parts = <<>> THEN p
  ELSE LET line == trim(Head(parts))
           data == trim(Tail(line))
           parsed == UpParse(data)
       IN IF line = <<>> \/ Head(line) # "D" THEN p12a_parts(p, Tail(parts))
          ELSE IF data = <<"X">>
          THEN [res_end(res_write(p, DoneFrame)) EXCEPT !.pc = "end"]
          ELSE IF ~parsed.ok
          THEN p12a_parts(res_write(p, Frame("text", data)), Tail(parts))
          ELSE IF parsed.kind = "choices" /\ parsed.content # <<>>
          THEN p12a_parts(res_write(p, Frame("text", parsed.content)), Tail(parts))
          ELSE p12a_parts(p, Tail(parts))

p12a_read ==
  /\ variant = "p12a"
  /\ CanTake
  /\ LET parts == p0_split(<<>>, proxy.buffer \o ProxyChunk)
     IN proxy' = p12a_parts([Taken(proxy) EXCEPT !.buffer = parts[Len(parts)]],
                            SubSeq(parts, 1, Len(parts) - 1))
  /\ UNCHANGED <<variant, scope, client>>

p12a_readDone ==
  /\ variant = "p12a"
  /\ proxy.pc = "read"
  /\ proxy.cuts = <<>>
  /\ proxy' = [res_end(proxy) EXCEPT !.pc = "end"]
  /\ UNCHANGED <<variant, scope, client>>

p12a_Next ==
  \/ \E hasKey \in BOOLEAN : p12a_handler(hasKey)
  \/ p12a_fetchOk
  \/ p12a_fetchNotOk
  \/ p12a_threw
  \/ p12a_read
  \/ p12a_readDone

(***************************************************************************)
(* part_012, second handler: a buffer across reads, [DONE] breaks out of   *)
(* the for loop only, a try / catch around the whole                       *)
(***************************************************************************)
p12b_handler(hasKey) ==
  /\ variant = "p12b"
  /\ proxy.pc = "idle"
  /\ proxy' = IF hasKey THEN [proxy EXCEPT !.pc = "fetch"] ELSE ProxyPlain(proxy)
  /\ UNCHANGED <<variant, scope, client>>

p12b_fetchOk == variant = "p12b" /\ ProxyFetchOk(TRUE)

p12b_fetchNotOk ==
  /\ variant = "p12b"
  /\ proxy.pc = "fetch"
  /\ proxy' = ProxyPlain(proxy)
  /\ UNCHANGED <<variant, scope, client>>

\* the catch block: if (!res.writableEnded) res.status(500).end(...)
p12b_threw ==
  /\ variant = "p12b"
  /\ proxy.pc \in {"fetch", "read"}
  /\ proxy' = IF proxy.ended THEN [proxy EXCEPT !.pc = "end"] ELSE ProxyPlain(proxy)
  /\ UNCHANGED <<variant, scope, client>>

\* line.match(/data:\s*(.*)/s): what follows the first `data:` of the line
p12b_data(line) ==
  LET I == {i \in 1..Len(line) : line[i] = "D"}
  IN IF I = {} THEN [ok |-> FALSE, data |-> <<>>]
     ELSE [ok |-> TRUE,
           data |-> trim(SubSeq(line, (CHOOSE i \in I : \A j \in I : i <= j) + 1, Len(line)))]

RECURSIVE p12b_parts(_, _)
p12b_parts(p, parts) ==
  IF parts = <<>> THEN p
  ELSE LET line == trim(Head(parts))
           m == p12b_data(line)
           parsed == UpParse(m.data)
       IN IF line = <<>> \/ ~m.ok THEN p12b_parts(p, Tail(parts))
          ELSE IF m.data = <<"X">> THEN res_write(p, DoneFrame)
          ELSE IF ~parsed.ok
          THEN p12b_parts(res_write(p, Frame("text", m.data)), Tail(parts))
          ELSE IF parsed.kind = "choices" /\ parsed.content # <<>>
          THEN p12b_parts(res_write(p, Frame("text", parsed.content)), Tail(parts))
          ELSE p12b_parts(p, Tail(parts))

p12b_read ==
  /\ variant = "p12b"
  /\ CanTake
  /\ LET parts == p0_split(<<>>, proxy.buffer \o ProxyChunk)
     IN proxy' = p12b_parts([Taken(proxy) EXCEPT !.buffer = parts[Len(parts)]],
                            SubSeq(parts, 1, Len(parts) - 1))
  /\ UNCHANGED <<variant, scope, client>>

p12b_readDone ==
  /\ variant = "p12b"
  /\ proxy.pc = "read"
  /\ proxy.cuts = <<>>
  /\ proxy' = [res_end(proxy) EXCEPT !.pc = "end"]
  /\ UNCHANGED <<variant, scope, client>>

p12b_Next ==
  \/ \E hasKey \in BOOLEAN : p12b_handler(hasKey)
  \/ p12b_fetchOk
  \/ p12b_fetchNotOk
  \/ p12b_threw
  \/ p12b_read
  \/ p12b_readDone

(***************************************************************************)
(* part_011, third handler: eventsource-parser, every event forwarded as   *)
(* it is                                                                   *)
(***************************************************************************)
p11c_handler(hasKey) ==
  /\ variant = "p11c"
  /\ proxy.pc = "idle"
  /\ proxy' = IF hasKey THEN [proxy EXCEPT !.pc = "fetch"] ELSE ProxyPlain(proxy)
  /\ UNCHANGED <<variant, scope, client>>

\* res.writeHead(200, { "Content-Type": "text/event-stream", ... })
p11c_fetchOk == variant = "p11c" /\ ProxyFetchOk(TRUE)

\* !response.body
p11c_fetchNotOk ==
  /\ variant = "p11c"
  /\ proxy.pc = "fetch"
  /\ proxy' = ProxyPlain(proxy)
  /\ UNCHANGED <<variant, scope, client>>

\* the catch block: res.status(500).json(...), which needs the headers not
\* to have been sent
p11c_threw ==
  /\ variant = "p11c"
  /\ proxy.pc \in {"fetch", "read"}
  /\ proxy' = IF proxy.started THEN [proxy EXCEPT !.pc = "end"] ELSE ProxyPlain(proxy)
  /\ UNCHANGED <<variant, scope, client>>

\* the parser callback, once per event of the read
RECURSIVE p11c_events(_, _)
p11c_events(p, events) ==
  IF events = <<>> THEN p
  ELSE p11c_events(IF Head(events) = <<"X">> THEN res_end(res_write(p, DoneFrame))
                   ELSE res_write(p, Frame("text", Head(events))),
                   Tail(events))

p11c_read ==
  /\ variant = "p11c"
  /\ CanTake
  /\ LET ps == feed(proxy.buffer, proxy.data, ProxyChunk)
     IN proxy' = p11c_events([Taken(proxy) EXCEPT !.buffer = ps.buf, !.data = ps.data],
                             ps.events)
  /\ UNCHANGED <<variant, scope, client>>

\* the loop ends and the handler returns
p11c_readDone ==
  /\ variant = "p11c"
  /\ proxy.pc = "read"
  /\ proxy.cuts = <<>>
  /\ proxy' = [proxy EXCEPT !.pc = "end"]
  /\ UNCHANGED <<variant, scope, client>>

p11c_Next ==
  \/ \E hasKey \in BOOLEAN : p11c_handler(hasKey)
  \/ p11c_fetchOk
  \/ p11c_fetchNotOk
  \/ p11c_threw
  \/ p11c_read
  \/ p11c_readDone

(***************************************************************************)
(* part_011, first handler: edge runtime, the frames are enqueued on a     *)
(* ReadableStream; every read is split into lines on its own               *)
(***************************************************************************)
\* the payload is missing: new Response(`Error: ...`)
p11a_handler(hasPayload) ==
  /\ variant = "p11a"
  /\ proxy.pc = "idle"
  /\ proxy' = IF hasPayload THEN [proxy EXCEPT !.pc = "fetch"] ELSE ProxyPlain(proxy)
  /\ UNCHANGED <<variant, scope, client>>

\* new Response(stream, { headers: { "Content-Type": "text/event-stream" } })
p11a_fetchOk == variant = "p11a" /\ ProxyFetchOk(TRUE)

\* !response.body
p11a_fetchNotOk ==
  /\ variant = "p11a"
  /\ proxy.pc = "fetch"
  /\ proxy' = ProxyPlain(proxy)
  /\ UNCHANGED <<variant, scope, client>>

\* fetch rejected: the catch block; reader.read rejected inside start():
\* the stream errors
p11a_threw ==
  /\ variant = "p11a"
  /\ proxy.pc \in {"fetch", "read"}
  /\ proxy' = IF proxy.started THEN [proxy EXCEPT !.pc = "end"] ELSE ProxyPlain(proxy)
  /\ UNCHANGED <<variant, scope, client>>

\* the for loop over the lines of one chunk
RECURSIVE p11a_lines(_, _)
p11a_lines(p, ls) ==
  IF ls = <<>> THEN p
  ELSE LET line == Head(ls)
           json == trim(Tail(line))
           parsed == UpParse(json)
       IN IF line = <<>> \/ Head(line) # "D" THEN p11a_lines(p, Tail(ls))
          ELSE IF json = <<"X">>
          THEN [res_end(res_write(p, DoneFrame)) EXCEPT !.pc = "end"]
          ELSE IF parsed.ok /\ parsed.kind = "choices" /\ parsed.content # <<>>
          THEN p11a_lines(res_write(p, Frame("text", parsed.content)), Tail(ls))
          ELSE p11a_lines(p, Tail(ls))

p11a_read ==
  /\ variant = "p11a"
  /\ CanTake
  /\ proxy' = p11a_lines(Taken(proxy), splitLines(<<>>, ProxyChunk))
  /\ UNCHANGED <<variant, scope, client>>

\* the loop ends: the sentinel is enqueued and the stream closed
p11a_readDone ==
  /\ variant = "p11a"
  /\ proxy.pc = "read"
  /\ proxy.cuts = <<>>
  /\ proxy' = [res_end(res_write(proxy, DoneFrame)) EXCEPT !.pc = "end"]
  /\ UNCHANGED <<variant, scope, client>>

p11a_Next ==
  \/ \E hasPayload \in BOOLEAN : p11a_handler(hasPayload)
  \/ p11a_fetchOk
  \/ p11a_fetchNotOk
  \/ p11a_threw
  \/ p11a_read
  \/ p11a_readDone

Init ==
  /\ variant \in Variants \cup ProxyVariants
  /\ scope \in (IF variant \in ProxyVariants THEN {"wire"} ELSE Scopes)
  /\ view = "HOME"
  /\ mode = IF variant = "sv" THEN "ACT" ELSE "story"
  /\ lines = IF variant \in {"p5", "p4"} THEN <<Line(<<"Welcome">>, "ai")>> ELSE <<>>
  /\ undoStack = <<>>
  /\ redoStack = <<>>
  /\ streaming = FALSE
  /\ controllerRef = 0
  /\ turns = [t \in TurnIds |-> IdleTurn]
  /\ op = NoOp
  /\ nEdits = 0
  /\ proxy = IdleProxy

Next ==
  \/ p5_Next \/ hs_Next \/ p4_Next \/ p8_Next \/ sv_Next \/ p0_Next \/ p2_Next
  \/ api_Next \/ p12a_Next \/ p12b_Next \/ p11c_Next \/ p11a_Next

Spec == Init /\ [][Next]_vars

(***************************************************************************)
(* Properties                                                              *)
(***************************************************************************)
\* the submit handler of whichever iteration runs, called in mode m with
\* the input box holding input
Submit(m, input) ==
  \/ p5_sendMessage(m, input)
  \/ hs_sendMessage(m, input)
  \/ p4_sendMessage(m, input)
  \/ p8_sendMessage(m, input)

Blank(input) == trim(input) = <<>>

\* C1: a submit in a mode other than continue / erase whose input is empty
\* after trimming changes neither the Transcript nor History nor Redo and
\* issues no request
C1_BlankSubmitChangesNothing ==
  [][(\A m \in TextModes, input \in Inputs :
        ((Blank(input) /\ Submit(m, input))
           => (UNCHANGED <<lines, undoStack, redoStack, turns>>)))]_vars

NoTurnInFlight == \A t \in TurnIds : turns[t].pc \in {"idle", "done"}

\* C2: from every state with a non-empty Redo stack and no turn in flight,
\* redo followed at once by undo gives back the Transcript the state had
C2_RedoThenUndoRestores ==
  (view = "GAME" /\ redoStack # <<>> /\ NoTurnInFlight) =>
     /\ variant = "p5" => p5_undone(p5_redone(Hist)).lines = lines
     /\ variant = "hs" => hs_undone(hs_redone(Hist)).lines = lines

\* C3: after an accepted submit, an erase, or the end of a streamed reply the
\* Redo stack is empty
C3_RedoEmptyAfterAction ==
  op.name \in {"submit", "erase", "readDone"} => redoStack = <<>>

\* C4: once the Session is initialized History holds at least one snapshot,
\* its bottom element is the Transcript initialization produced, and undo
\* changes nothing unless History holds more than one snapshot
C4_HistoryKeepsInitialTranscript ==
  [][(variant \in {"p5", "hs"}) =>
       (/\ view' = "GAME" => Len(undoStack') >= 1
        /\ (view = "HOME" /\ view' = "GAME") => undoStack'[1] = lines'
        /\ (view = "GAME" /\ view' = "GAME") => undoStack'[1] = undoStack[1]
        /\ ((p5_undo \/ hs_undo) /\ Len(undoStack) <= 1)
             => (UNCHANGED <<lines, undoStack, redoStack>>))]_vars

\* what the Session contract asks of eraseLastTurn: the last narrator Line
\* and the last user Line go, whatever lies between them stays in order
eraseLastTurn(ls) ==
  LET keep == {i \in 1..Len(ls) : i # LastIndexOf(ls, "ai") /\ i # LastIndexOf(ls, "user")}
      nth(j) == CHOOSE i \in keep : Cardinality({x \in keep : x < i}) = j - 1
  IN [j \in 1..Cardinality(keep) |-> ls[nth(j)]]

\* C5: erase removes exactly the most recent narrator Line and the most
\* recent user Line, each found on its own from the tail; the other Lines
\* keep their order
C5_EraseRemovesLastOfEachKind ==
  [][((\E input \in Inputs : Submit("erase", input))
        => lines' = eraseLastTurn(lines))]_vars

\* the user Line an accepted submit writes in mode m
UserLine(m, input) ==
  IF variant = "p4" THEN Line(p4_userText(m, input), "user")
  ELSE IF variant = "p8" THEN Line(p8_cue(m, p8_msgPayload(m, input)), "user")
  ELSE Line(hs_userText(m, input), "user")

\* C6: an accepted submit appends exactly one user Line, the template of its
\* mode applied to the input, and nothing else; a continue appends no Line
C6_SubmitAppendsOneUserLine ==
  [][(\A m \in TextModes \cup {"continue"}, input \in Inputs :
        ((variant \in {"p4", "p8", "hs"} /\ (m = "continue" \/ ~Blank(input))
              /\ Submit(m, input))
           => lines' = IF m = "continue" THEN lines
                       ELSE Append(lines, UserLine(m, input))))]_vars

\* the deltas the client emits when the bytes arrive in a single read
WholeDeltas(bytes) ==
  IF variant = "p0" THEN p0_chunk(bytes).texts
  ELSE p5_allDeltas(feed(<<>>, <<>>, bytes).events)

\* C7: the deltas of a reply that was read to its end are those of its
\* bytes taken as a whole, however the bytes were split into reads
C7_DeltasIndependentOfSplitting ==
  \A t \in TurnIds :
    (variant \in {"p5", "p0"} /\ turns[t].out = "ok")
      => turns[t].deltas = WholeDeltas(turns[t].sent)

\* C8: every event a read dispatches whose payload is neither the sentinel
\* nor valid JSON yields a delta equal to the payload
C8_NonJsonPayloadEmittedRaw ==
  [][(\A t \in TurnIds :
        (variant \in {"p5", "p4", "hs"} /\ op'.name = "read" /\ op'.turn = t)
          => LET k == Len(turns[t].wire) - Len(turns'[t].wire)
                 ps == feed(turns[t].buf, turns[t].data, SubSeq(turns[t].wire, 1, k))
                 new == SubSeq(turns'[t].deltas, Len(turns[t].deltas) + 1,
                               Len(turns'[t].deltas))
             IN \A i \in 1..Len(ps.events) :
                  (ps.events[i] # <<"X">> /\ ~JSONparse(ps.events[i]).ok)
                    => \E j \in 1..Len(new) : new[j] = ps.events[i])]_vars

Aborted == <<"(stream aborted)">>

\* C9: stopping a turn that has applied at least one delta keeps every Line
\* of the Transcript as it was, adds exactly one "(stream aborted)" Line
\* and ends the turn as aborted, not as a network error
C9_AbortKeepsPartialReply ==
  [][((variant \in {"p5", "sv"} /\ (p5_stopStreaming \/ sv_stopStream)
         /\ controllerRef # 0 /\ turns[controllerRef].pc = "read"
         /\ turns[controllerRef].deltas # <<>>)
        => /\ Len(lines') = Len(lines) + 1
           /\ SubSeq(lines', 1, Len(lines)) = lines
           /\ lines'[Len(lines')].text = Aborted
           /\ turns'[controllerRef].out = "abort")]_vars

\* a cancelled turn that had applied a delta: the reply it had built so far
\* is followed by the cancellation Line
C9_Witness ==
  /\ variant \in {"p5", "sv"}
  /\ op.name = "stop" /\ op.turn # 0
  /\ turns[op.turn].out = "abort"
  /\ turns[op.turn].deltas # <<>>
  /\ Len(lines) >= 2
  /\ lines[Len(lines)].text = Aborted
  /\ lines[Len(lines) - 1].who = "ai"
  /\ lines[Len(lines) - 1].text # <<>>

RECURSIVE Concat(_)
Concat(ds) == IF ds = <<>> THEN <<>> ELSE Head(ds) \o Concat(Tail(ds))

\* C10: when a turn that nothing interfered with has read its reply to the
\* end, the text of the narrator Line it wrote to is the concatenation of
\* the deltas it emitted, in order
C10_ReplyIsConcatenationOfDeltas ==
  (variant \in {"p5", "p8"} /\ scope # "overlap" /\ nEdits = 0 /\ op.name = "readDone")
    => LET i == LastIndexOf(lines, "ai")
       IN i # 0 /\ lines[i].text = Concat(turns[op.turn].deltas)

\* the turns whose request has been sent and has not yet ended
InFlight == {t \in TurnIds : turns[t].pc \in {"fetch", "read"}}

\* C11: at most one request to the narration service is outstanding at any
\* time
C11_OneRequestOutstanding ==
  variant \in {"p5", "hs", "sv"} => Cardinality(InFlight) <= 1

\* what the runtime does for turn t once its fetch or its read settles: the
\* continuation of the awaiting call runs
TurnStep(t) ==
  \/ p5_fetchOk(t) \/ p5_fetchNotOk(t) \/ p5_readDone(t) \/ \E k \in 1..12 : p5_read(t, k)
  \/ hs_fetchOk(t) \/ hs_fetchNotOk(t) \/ hs_readDone(t) \/ \E k \in 1..12 : hs_read(t, k)
  \/ p4_fetchOk(t) \/ p4_fetchNotOk(t) \/ p4_readDone(t) \/ \E k \in 1..12 : p4_read(t, k)
  \/ p8_fetchOk(t) \/ p8_fetchNotOk(t) \/ p8_readDone(t) \/ \E k \in 1..12 : p8_read(t, k)
  \/ sv_fetchOk(t) \/ sv_fetchNotOk(t) \/ sv_readDone(t) \/ \E k \in 1..12 : sv_read(t, k)
  \/ p0_fetchOk(t) \/ p0_fetchNoBody(t) \/ p0_readDone(t) \/ \E k \in 1..12 : p0_read(t, k)

\* every pending fetch and every pending read settles, and the awaiting call
\* is then resumed
FairSpec == Spec /\ \A t \in TurnIds : WF_vars(TurnStep(t))

\* C12: every started turn ends with Streaming false; a turn that ends in
\* a failure (HTTP failure, cancellation, network fault) writes a Line into
\* the Transcript as it ends
C12_TurnsTerminateWithALine ==
  /\ [][(\A t \in TurnIds :
           (variant \in {"p5", "hs", "p0"} /\ t \in InFlight
                /\ turns'[t].pc = "done" /\ turns'[t].out # "ok")
             => (Len(lines') = Len(lines) + 1 /\ ~streaming'))]_vars
  /\ \A t \in TurnIds :
       (variant \in {"p5", "hs", "p0"} /\ t \in InFlight)
         ~> (turns[t].pc = "done" /\ ~streaming)

Fallback == <<Line(<<"A new tale begins.">>, "ai")>>

\* C13: initialization leaves Transcript = seedLines, History = [seedLines],
\* Redo empty and Streaming false; with every seed field empty the Transcript
\* is the single fallback narrator Line
C13_InitializeSeedsSession ==
  [][((p5_startGameFromSetup \/ p4_startGameFromSetup)
        => /\ \E s \in p5_Seeds :
                /\ lines' = p5_initial(s[1], s[2], s[3])
                /\ (s[1] = <<>> /\ s[2] = <<>> /\ s[3] = <<>>) => lines' = Fallback
           /\ undoStack' = <<lines'>>
           /\ redoStack' = <<>>
           /\ ~streaming')]_vars

\* C14: a read of a turn that nothing interferes with changes at most the
\* narrator Line of that turn, the Line that holds exactly what the turn has
\* written so far, and makes it grow by the new deltas; every other Line
\* keeps its text
C14_OnlyTheActiveLineGrows ==
  [][(\A t \in TurnIds :
        (variant \in {"p5", "p8"} /\ scope # "overlap" /\ nEdits = 0
             /\ op'.name = "read" /\ op'.turn = t /\ turns'[t] # turns[t])
          => /\ Len(lines') = Len(lines)
             /\ \A i \in 1..Len(lines) :
                  \/ lines'[i] = lines[i]
                  \/ /\ lines[i].who = "ai"
                     /\ lines[i].text = Concat(turns[t].deltas)
                     /\ lines'[i].text = Concat(turns'[t].deltas))]_vars

\* C15: the active Mode is never continue or erase
C15_ActiveModeIsNeverOneShot ==
  variant \in {"p5", "p8", "p2"} => mode \notin {"continue", "erase"}

\* C16: a response that is not a success or has no body ends the turn with
\* exactly one Line "(error) <detail>" appended; Streaming was not true
\* while the turn ran and is not true after it, and the Transcript holds no
\* empty narrator placeholder
C16_HttpFailureEmitsOneErrorLine ==
  [][(\A t \in TurnIds :
        (p5_fetchNotOk(t) \/ hs_fetchNotOk(t))
          => /\ lines' = appendLine(lines, <<"(error) ", "detail">>, "ai")
             /\ ~streaming /\ ~streaming'
             /\ \A i \in 1..Len(lines') : lines'[i].text # <<>>)]_vars

\* C17: a network fault ends the turn with exactly one Line
\* "(network error) <message>" appended and Streaming false
C17_NetworkFaultEmitsOneLine ==
  [][(\A t \in TurnIds :
        (p4_catchError(t) \/ hs_catchError(t))
          => /\ lines' = appendLine(lines, <<"(network error) ", "message">>, "ai")
             /\ turns'[t].pc = "done"
             /\ ~streaming')]_vars

\* C18: while Streaming is true, erase, undo and redo change neither the
\* Transcript nor History nor Redo
C18_EditsOnlyFromIdle ==
  [][((streaming /\ variant \in {"p5", "hs"}
         /\ (\/ p5_undo \/ p5_redo \/ hs_undo \/ hs_redo
             \/ \E input \in Inputs : Submit("erase", input)))
        => (UNCHANGED <<lines, undoStack, redoStack>>))]_vars

Top(s) == s[Len(s)]
Front(s) == SubSeq(s, 1, Len(s) - 1)

\* s with x pushed at the end the iteration uses as the top of its Redo stack
Pushed(s, x) == {Append(s, x), <<x>> \o s}

\* C19: undo changes nothing when History holds at most one snapshot;
\* otherwise it pops the top of History, pushes the popped snapshot onto
\* Redo and sets the Transcript to the new top of History
C19_UndoPopsHistory ==
  [][((p5_undo \/ hs_undo \/ p4_undo)
        => IF Len(undoStack) <= 1
           THEN UNCHANGED <<lines, undoStack, redoStack>>
           ELSE /\ undoStack' = Front(undoStack)
                /\ redoStack' \in Pushed(redoStack, Top(undoStack))
                /\ lines' = Top(undoStack'))]_vars

\* redo as the Session contract words it: with Redo empty nothing changes;
\* otherwise the snapshot on top of Redo is removed and becomes the
\* Transcript, and History grows by the snapshot `pushed`
RedoStep(pushed) ==
  IF redoStack = <<>>
  THEN UNCHANGED <<lines, undoStack, redoStack>>
  ELSE /\ \/ redoStack' = Front(redoStack) /\ lines' = Top(redoStack)
          \/ redoStack' = Tail(redoStack) /\ lines' = Head(redoStack)
       /\ undoStack' = Append(undoStack, pushed)

Undone(h) == IF variant = "hs" THEN hs_undone(h) ELSE p5_undone(h)

Accepted(m, input) == m = "continue" \/ ~Blank(input)

\* C21: an accepted submit pushes onto History the Transcript as it stood
\* before the call, without the new user Line, and an undo from the state it
\* leaves gives that Transcript back
C21_SubmitPushesPreTurnSnapshot ==
  [][(\A m \in TextModes \cup {"continue"}, input \in Inputs :
        ((variant \in {"p5", "hs"} /\ Accepted(m, input) /\ Submit(m, input))
           => /\ undoStack' = Append(undoStack, lines)
              /\ Undone(Hist').lines = lines))]_vars

\* the erase handler of the iterations that keep History
Erase == \E input \in Inputs : p5_sendMessage("erase", input) \/ hs_sendMessage("erase", input)

\* C22 (as stated): erase pushes the pre-erase Transcript onto History and
\* issues no request
C22_ErasePushesPreEraseSnapshot ==
  [][(Erase => (undoStack' = Append(undoStack, lines) /\ turns' = turns))]_vars

\* C22 (amended): erase pushes exactly one snapshot onto History and issues
\* no request; the snapshot is the pre-erase Transcript in part_005 and the
\* post-erase Transcript in App.tsx
C22_ErasePushesOneSnapshot ==
  [][(Erase => /\ undoStack' = Append(undoStack, IF variant = "hs" THEN lines' ELSE lines)
               /\ turns' = turns)]_vars

\* an erase that removed Lines, seen from each side: part_005 has the
\* pre-erase Transcript on top of History, App.tsx the post-erase one
C22_Witness ==
  /\ op.name = "erase"
  /\ undoStack # <<>>
  /\ Len(Top(undoStack)) > 0
  /\ \/ variant = "p5" /\ Top(undoStack) # lines /\ Len(lines) < Len(Top(undoStack))
     \/ variant = "hs" /\ Top(undoStack) = lines /\ Len(undoStack) >= 2
                       /\ Len(lines) < Len(Top(Front(undoStack)))

\* C23: when a streamed reply has ended Streaming is false and the top of
\* History is the complete Transcript, the user Line and the reply of that
\* turn included
C23_ReplyEndPushesTranscript ==
  (variant \in {"p5", "hs"} /\ op.name = "readDone")
    => /\ ~streaming
       /\ undoStack # <<>>
       /\ Top(undoStack) = lines

\* the position in bytes at which the sentinel event is complete (its blank
\* line included), 0 when it is not
SentinelEnd(bytes) ==
  LET I == {i \in 1..(Len(bytes) - 2) :
              bytes[i] = "X" /\ bytes[i + 1] = "N" /\ bytes[i + 2] = "N"}
  IN IF I = {} THEN 0 ELSE (CHOOSE i \in I : \A j \in I : i <= j) + 2

\* the deltas turn t emits when its next read returns chunk
ReadDeltas(t, chunk) ==
  IF variant = "p0" THEN p0_chunk(chunk).texts
  ELSE IF variant = "hs" THEN hs_allDeltas(feed(turns[t].buf, turns[t].data, chunk).events)
  ELSE p5_allDeltas(feed(turns[t].buf, turns[t].data, chunk).events)

\* C24: once the sentinel has been received a read applies nothing to the
\* Transcript; a read in which the sentinel arrives applies what precedes
\* the sentinel and nothing of what follows it; the sentinel is never a
\* delta
C24_NothingAppliedAfterSentinel ==
  [][(\A t \in TurnIds :
        (variant \in {"p5", "hs", "p0"} /\ op'.name = "read" /\ op'.turn = t)
          => LET had == turns[t].sent
                 has == turns'[t].sent
                 new == SubSeq(turns'[t].deltas, Len(turns[t].deltas) + 1,
                               Len(turns'[t].deltas))
             IN /\ SentinelEnd(had) # 0 => (new = <<>> /\ lines' = lines)
                /\ (SentinelEnd(had) = 0 /\ SentinelEnd(has) # 0)
                     => new = ReadDeltas(t, SubSeq(has, Len(had) + 1, SentinelEnd(has)))
                /\ \A i \in 1..Len(new) : new[i] # <<"X">>)]_vars

\* C25: the stored cancellation handle is the handle of every turn in
\* flight, and a turn whose handle was invoked emits no further delta
C25_OneHandlePerTurnInFlight ==
  /\ [](variant \in {"p5", "hs"} => \A t \in InFlight : controllerRef = t)
  /\ [][(\A t \in TurnIds :
           (variant \in {"p5", "hs"} /\ turns[t].out = "abort")
             => turns'[t].deltas = turns[t].deltas)]_vars

\* h holds at most HistoryLimit texts and they are the texts of the last
\* Lines of ls, in the order of ls
TrailingSlice(h, ls) ==
  /\ Len(h) <= HistoryLimit
  /\ Len(h) <= Len(ls)
  /\ \A i \in 1..Len(h) : h[i] = ls[Len(ls) - Len(h) + i].text

\* C26: the history of a request is a trailing slice of at most HistoryLimit
\* Lines of the Transcript the call found, and the message of a continue
\* request is empty
C26_HistoryIsBoundedTrailingSlice ==
  [][(\A m \in TextModes \cup {"continue"}, input \in Inputs :
        ((variant \in {"hs", "p8"} /\ Accepted(m, input) /\ Submit(m, input))
           => LET r == turns'[op'.turn].req
              IN /\ TrailingSlice(r.history, lines)
                 /\ m = "continue" => r.message = <<>>))]_vars

\* every snapshot of s is in s2, unchanged and in the same order (s2 may
\* have dropped the oldest one and may hold new ones on top)
Kept(s, s2) ==
  \/ Len(s2) >= Len(s) /\ SubSeq(s2, 1, Len(s)) = s
  \/ s # <<>> /\ Len(s2) >= Len(s) - 1 /\ SubSeq(s2, 1, Len(s) - 1) = Tail(s)

DoneAt == {i \in 1..Len(proxy.frames) : proxy.frames[i].k = "done"}

\* C28: once the proxy has begun an event-stream response it writes the
\* frame `data: [DONE]` exactly once, as the last frame, on every path, and
\* attempts no write after ending the response
C28_SentinelOnceAndLast ==
  (variant \in {"api", "p12a", "p12b", "p11c"} /\ proxy.started)
    => /\ ~proxy.late
       /\ \A i \in DoneAt : i = Len(proxy.frames)
       /\ proxy.pc = "end" => (proxy.ended /\ DoneAt = {Len(proxy.frames)})

\* the text deltas of the complete events among the upstream bytes, up to
\* the sentinel
RECURSIVE UpDeltas(_)
UpDeltas(parts) ==
  IF parts = <<>> THEN <<>>
  ELSE LET line == trim(Head(parts))
           payload == trim(Tail(line))
       IN IF line = <<>> \/ Head(line) # "D" THEN UpDeltas(Tail(parts))
          ELSE IF payload = <<"X">> THEN <<>>
          ELSE IF UpParse(payload).ok /\ UpParse(payload).kind = "choices"
          THEN <<UpParse(payload).content>> \o UpDeltas(Tail(parts))
          ELSE UpDeltas(Tail(parts))

\* the complete events of the bytes read so far
Complete(bytes) ==
  LET parts == p0_split(<<>>, bytes) IN SubSeq(parts, 1, Len(parts) - 1)

\* the texts the proxy has forwarded; an echo of the sentinel and an error
\* report are not counted
Forwarded ==
  LET F == SelectSeq(proxy.frames,
                     LAMBDA f : f.k \in {"content", "text"} /\ f.text # <<"X">>)
  IN [i \in 1..Len(F) |-> F[i].text]

\* C29: the proxy forwards each upstream text delta exactly once and in
\* upstream order however the upstream bytes are split into reads: once the
\* upstream bytes are all read, the texts forwarded are the deltas of the
\* upstream events
C29_DeltasForwardedOnceInOrder ==
  (variant \in {"p12a", "api", "p11a"} /\ proxy.started /\ proxy.cuts = <<>>
     /\ proxy.sent \in {UpTwo, UpNoDone})
    => Forwarded = UpDeltas(Complete(proxy.sent))

(***************************************************************************)
(* The undo stack at its limit.  UndoLimit snapshots take UndoLimit        *)
(* pushes, so the sessions below begin where a long session of part_005    *)
(* stands: the game started from the setup form, then Erase clicked n      *)
(* times, each click pushing a snapshot.                                   *)
(***************************************************************************)
\* the Transcript after n clicks on Erase; a click on an empty Transcript
\* leaves it empty
RECURSIVE ErasedTimes(_, _)
ErasedTimes(ls, n) ==
  IF n = 0 \/ ls = <<>> THEN ls ELSE ErasedTimes(p5_erased(ls), n - 1)

\* History after n clicks on Erase, n <= UndoLimit: the k-th click pushes the
\* Transcript that k - 1 clicks have left, and nothing is discarded yet
PushedTimes(ls, n) == [k \in 1..n |-> ErasedTimes(ls, k - 1)]

StackSeed == p5_initial(<<"T">>, <<>>, <<"O">>)

StackInit ==
  /\ variant = "p5"
  /\ scope \in {"wide", "deep"}
  /\ view = "GAME"
  /\ mode = "story"
  /\ \E n \in {UndoLimit - 1, UndoLimit} :
       /\ lines = ErasedTimes(StackSeed, n)
       /\ undoStack = PushedTimes(StackSeed, n)
  /\ redoStack = <<>>
  /\ streaming = FALSE
  /\ controllerRef = 0
  /\ turns = [t \in TurnIds |-> IdleTurn]
  /\ op = Op("erase", 0, "erase")
  /\ nEdits = 0
  /\ proxy = IdleProxy

\* what the user and the network can do once the game is on
StackNext ==
  \/ \E m \in ScopeModes : p5_setMode(m)
  \/ \E m \in ScopeModes, input \in Inputs : p5_toolbar(m, input)
  \/ p5_undo
  \/ p5_redo
  \/ p5_stopStreaming
  \/ \E t \in TurnIds : p5_fetchOk(t)
  \/ \E t \in TurnIds : p5_fetchNotOk(t)
  \/ \E t \in TurnIds : p5_catchError(t)
  \/ \E t \in TurnIds, k \in 1..12 : p5_read(t, k)
  \/ \E t \in TurnIds : p5_readDone(t)

SpecStack == StackInit /\ [][StackNext]_vars

\* a call of sendMessage that pushes a snapshot
Pushes(m, input) == p5_sendMessage(m, input) /\ (m = "erase" \/ Accepted(m, input))

\* C30: the undo stack never holds more than 50 snapshots; a push onto a
\* full stack discards the oldest snapshot and keeps the others in order
C30_UndoStackBounded ==
  /\ [](variant = "p5" => Len(undoStack) <= 50)
  /\ [][(\A m \in TextModes \cup {"continue", "erase"}, input \in Inputs :
           Pushes(m, input)
             => undoStack' = IF Len(undoStack) = 50
                             THEN Append(Tail(undoStack), lines)
                             ELSE Append(undoStack, lines))]_vars

\* a push has just discarded the oldest snapshot of a full stack
C30_Witness ==
  /\ variant = "p5"
  /\ op.name \in {"submit", "erase"}
  /\ Len(undoStack) = 50
  /\ undoStack[1] # StackSeed
  /\ undoStack[1] = SubSeq(StackSeed, 1, 1)

====
